---- MODULE Spec2Model ----
(***************************************************************************)
(* A model of synology_to_immich: the progress ledger (progress.py), the   *)
(* Live Photo pairer (live_photo.py), the migration orchestrator           *)
(* (migrator.py), the retry command (__main__.py) and the file-level       *)
(* verification engine (verify.py).                                        *)
(*                                                                         *)
(* A path is a record [dir, name, ext]: os.path.dirname, and the two       *)
(* halves of os.path.splitext(os.path.basename(path)).  Python's None is   *)
(* the string "None"; the empty string stays the empty string.             *)
(***************************************************************************)
EXTENDS Integers, Sequences, FiniteSets, TLC

None == "None"

\* FileStatus (progress.py): the values persisted in the status column.
SUCCESS == "success"
FAILED == "failed"
UNSUPPORTED == "unsupported"
FileStatus == {SUCCESS, FAILED, UNSUPPORTED}

(***************************************************************************)
(* Paths.                                                                  *)
(***************************************************************************)
Dirs == {"/a", "/b"}
Names == {"IMG", "img", "PIC"}
Exts == {".HEIC", ".jpg", ".MOV", ".mp4"}
Paths == [dir : Dirs, name : Names, ext : Exts]

P(d, n, e) == [dir |-> d, name |-> n, ext |-> e]

\* The files of the source trees checked.
IMG_HEIC == P("/a", "IMG", ".HEIC")
IMG_MOV == P("/a", "img", ".MOV")
B_JPG == P("/b", "IMG", ".jpg")
B_MP4 == P("/b", "IMG", ".mp4")

\* str.lower() on the stems and extensions of the universe.
Lower(s) ==
    CASE s = "IMG" -> "img"
      [] s = "PIC" -> "pic"
      [] s = ".HEIC" -> ".heic"
      [] s = ".MOV" -> ".mov"
      [] OTHER -> s

LIVE_PHOTO_IMAGE_EXTENSIONS == {".heic", ".jpg", ".jpeg"}
LIVE_PHOTO_VIDEO_EXTENSIONS == {".mov"}

Range(s) == {s[i] : i \in 1..Len(s)}

\* The sequences without repetition over S, of length at most n.
RECURSIVE SeqsNoDup(_, _)
SeqsNoDup(S, n) ==
    IF n = 0 THEN {<<>>}
    ELSE LET shorter == SeqsNoDup(S, n - 1)
         IN shorter \cup
            {Append(s[1], s[2]) :
                s \in {t \in shorter \X S : Len(t[1]) = n - 1 /\ t[2] \notin Range(t[1])}}

(***************************************************************************)
(* Progress ledger: the migrated_files table, in rowid order.              *)
(***************************************************************************)
Row(path, hash, size, mtime, asset, status, error) ==
    [source_path |-> path, source_hash |-> hash, source_size |-> size,
     source_mtime |-> mtime, immich_asset_id |-> asset, status |-> status,
     error_message |-> error]

NoRow == [source_path |-> None]

RowsOf(table, path) == {i \in 1..Len(table) : table[i].source_path = path}

\* A mutation of the upsert: a plain INSERT with no conflict clause on a
\* table with no UNIQUE constraint.
RecordFileNoConflict(table, row) == Append(table, row)

\* INSERT ... ON CONFLICT(source_path) DO UPDATE SET <every other column>.
RecordFile(table, row) ==
    IF RowsOf(table, row.source_path) = {}
    THEN Append(table, row)
    ELSE [i \in 1..Len(table) |->
            IF table[i].source_path = row.source_path THEN row ELSE table[i]]

\* SELECT * FROM migrated_files WHERE source_path = ?, fetchone().
GetFile(table, path) ==
    IF RowsOf(table, path) = {} THEN NoRow
    ELSE table[CHOOSE i \in RowsOf(table, path) :
                 \A j \in RowsOf(table, path) : i <= j]

\* A mutation of is_migrated: any record counts as migrated.
IsMigratedAnyRecord(table, path) == GetFile(table, path) # NoRow

IsMigrated(table, path) ==
    LET file_info == GetFile(table, path)
    IN IF file_info = NoRow THEN FALSE ELSE file_info.status = SUCCESS

(***************************************************************************)
(* Live Photo pairer.                                                      *)
(***************************************************************************)
NoFile == [dir |-> None, name |-> None, ext |-> None]

\* The dict key (directory, name_lower) and the dict key (path, "other").
\* A mutation of the group key: the stem keeps its case.
GroupKeyCaseSensitive(f) ==
    [kind |-> "group", dir |-> f.dir, stem |-> f.name, path |-> NoFile]

GroupKey(f) == [kind |-> "group", dir |-> f.dir, stem |-> Lower(f.name), path |-> NoFile]

\* A mutation of the key of an other file: the key of its directory and
\* stem.
OtherKeyByStem(f) ==
    [kind |-> "group", dir |-> f.dir, stem |-> Lower(f.name), path |-> NoFile]

OtherKey(f) == [kind |-> "other", dir |-> None, stem |-> None, path |-> f]

EmptySlots == [image |-> NoFile, video |-> NoFile, other |-> NoFile]

KeyIndex(groups, key) == {i \in 1..Len(groups) : groups[i].key = key}

\* groups[key] = {} when the key is absent; dicts keep insertion order.
EnsureKey(groups, key) ==
    IF KeyIndex(groups, key) = {}
    THEN Append(groups, [key |-> key, slots |-> EmptySlots])
    ELSE groups

\* groups[key][slot] = f
SetSlot(groups, key, slot, f) ==
    [i \in 1..Len(groups) |->
        IF groups[i].key = key
        THEN [groups[i] EXCEPT !.slots = [groups[i].slots EXCEPT ![slot] = f]]
        ELSE groups[i]]

\* groups[other_key] = {"other": f}
PutOther(groups, f) ==
    LET g == EnsureKey(groups, OtherKey(f))
    IN [i \in 1..Len(g) |->
          IF g[i].key = OtherKey(f)
          THEN [key |-> OtherKey(f), slots |-> [EmptySlots EXCEPT !.other = f]]
          ELSE g[i]]

\* One iteration of the first loop of pair_files.
Classify(groups, f) ==
    LET g == EnsureKey(groups, GroupKey(f))
        ext_lower == Lower(f.ext)
    IN IF ext_lower \in LIVE_PHOTO_IMAGE_EXTENSIONS
       THEN SetSlot(g, GroupKey(f), "image", f)
       ELSE IF ext_lower \in LIVE_PHOTO_VIDEO_EXTENSIONS
       THEN SetSlot(g, GroupKey(f), "video", f)
       ELSE PutOther(g, f)

RECURSIVE BuildGroups(_, _)
BuildGroups(files, groups) ==
    IF files = <<>> THEN groups
    ELSE BuildGroups(Tail(files), Classify(groups, Head(files)))

LivePhotoGroup(image, video) == [image_path |-> image, video_path |-> video]

is_live_photo(group) == group.video_path # NoFile

\* The second loop of pair_files: what one dict entry yields.
Emit(slots) ==
    IF slots.image # NoFile /\ slots.video # NoFile
    THEN <<LivePhotoGroup(slots.image, slots.video)>>
    ELSE IF slots.image # NoFile THEN <<LivePhotoGroup(slots.image, NoFile)>>
    ELSE IF slots.video # NoFile THEN <<LivePhotoGroup(slots.video, NoFile)>>
    ELSE IF slots.other # NoFile THEN <<LivePhotoGroup(slots.other, NoFile)>>
    ELSE <<>>

RECURSIVE EmitAll(_)
EmitAll(groups) ==
    IF groups = <<>> THEN <<>>
    ELSE Emit(Head(groups).slots) \o EmitAll(Tail(groups))

pair_files(files) == EmitAll(BuildGroups(files, <<>>))

\* The paths a sequence of groups mentions, with multiplicity.
GroupPaths(group) ==
    IF is_live_photo(group) THEN <<group.image_path, group.video_path>>
    ELSE <<group.image_path>>

RECURSIVE EmittedPaths(_)
EmittedPaths(groups) ==
    IF groups = <<>> THEN <<>>
    ELSE GroupPaths(Head(groups)) \o EmittedPaths(Tail(groups))

Occurrences(s, x) == Cardinality({i \in 1..Len(s) : s[i] = x})

(***************************************************************************)
(* State.                                                                  *)
(***************************************************************************)
VARIABLES
    ledger,      \* the migrated_files table
    lastCall,    \* per path, the arguments of the latest record_file call
    prevStatus,  \* per path, the status of the row that call replaced
    pairIn,      \* LivePhotoPairer.files
    pairOut,     \* list(pairer.pair_files())
    pairPc,
    srcFiles,    \* what reader.list_files() yields, in its order
    dryRun,      \* config.dry_run of the current invocation
    cfgBatch,    \* config.batch_size and config.batch_delay
    mPc,         \* where Migrator.run stands
    mGroups,     \* groups
    mIdx,        \* the position of the for loop in groups
    mUpload,     \* upload_result of the image
    mCount,      \* total_files, success_count, failed_count, ...
    mBatch,      \* processed_in_batch
    mSleeps,     \* per group position, whether time.sleep followed it
    mOutcome,    \* per group position, how this run counted the group
    readLog,     \* the paths handed to reader.read_file by this invocation
    infoLog,     \* the paths handed to reader.get_file_info
    uploadLog,   \* the paths handed to immich_client.upload_asset
    writeLog,    \* the paths handed to progress_tracker.record_file
    ledgerAtStart, \* the ledger when this invocation started
    runNo,       \* invocations started so far
    killedAt,    \* the group position in flight when the previous
                 \* invocation was killed, 0 if it was not killed
    videoFailed, \* the group positions whose video read or upload failed
    imageFailed, \* the group positions whose image read raised
    unsupRun,    \* per path, the invocation in which upload_asset first
                 \* returned is_unsupported for it, 0 if it never did
    remoteBulk,  \* per asset id, the checksum get_all_assets lists for it
    remoteDirect, \* per asset id, what get_asset_by_id returns for it
    localHash,   \* per path, the checksum of its bytes, or "raise"
    vLog,        \* the lines of the resume file
    vPc,         \* where verify_with_hash stands
    vToVerify,   \* to_verify
    vI,          \* the position of the for loop in to_verify
    vLists,      \* missing_files, hash_mismatches, not_in_db
    vCounts,     \* total_files and immich_count
    vResult,     \* the VerificationResult returned
    vLooked,     \* the paths this invocation looked up in the ledger
    vLogAtStart, \* the resume file when this invocation started
    rPc,         \* where the retry command stands
    rFailed,     \* failed_files
    rI,          \* the position of the for loop in failed_files
    rCount,      \* success_count and failed_count of retry
    rExit,       \* the exit status of the command, once it has returned
    synAlbums,   \* what synology_fetcher.get_albums() returns
    immAlbums,   \* the albums the Immich server lists
    albumTable,  \* the migrated_albums table, per synology_album_id
    albHash,     \* per album member file, the checksum of its bytes, or "raise"
    immAssets,   \* per Immich album id, the assets get_album_assets returns
    videoAsset,  \* per companion asset id, what get_asset_by_id returns
    avPc,        \* where the verify-albums command stands
    avMatched,   \* matched
    avI,         \* the position of the for loop in matched
    avVerified,  \* verified_ids, as loaded from the progress file
    avResults,   \* album_results
    avLog,       \* the lines of the album progress file
    avReport,    \* the report written to output_file
    avReads,     \* the member files this invocation handed to read_file
    avRun,       \* verify-albums invocations started so far
    avBatch,     \* batch_size of the current verify-albums invocation
    avExit,      \* the exit status of verify-albums, once it has ended
    amPc,        \* where the albums command stands
    amDryRun,    \* AlbumMigrator._dry_run of the current invocation
    amI,         \* the position of the for loop in albums
    amCount,     \* success_count, failed_count, skipped_count
    amCalls,     \* the create_album calls made so far, with their results
    amAdds,      \* the add_assets_to_album calls made so far
    amTableAtStart, \* the migrated_albums table when this invocation started
    amOutcome,   \* per album position, how this invocation counted the album
    amRun,       \* albums invocations started so far
    exPath,      \* the path handed to should_exclude, as its segments
    exLocal,     \* for LocalFileReader: the verdict of should_exclude on the
                 \* file, and whether list_files yields the file
    exSmb,       \* the same for SmbFileReader
    exPc,
    bfPc,        \* where the backfill command is
    bfRemote,    \* the assets get_all_assets returns, in order
    bfExisting,  \* existing: the unrecorded files found on the remote by name
    bfMissing,   \* missing: the unrecorded files not found on the remote
    bfI,         \* the position of upload_missing in missing
    upPc,        \* where upload_asset is
    upReply,     \* what the POST to /api/assets came back with
    upResult,    \* the ImmichUploadResult returned
    gaPc,        \* where get_all_assets is
    gaServer,    \* the assets the server holds, in listing order
    gaErrorAt,   \* the request the server answers with a non-200 status, or 0
    gaPage,      \* page
    gaAll,       \* all_assets
    gaRequests   \* the page numbers requested so far, in order

ledgerVars == <<ledger, lastCall, prevStatus>>
pairVars == <<pairIn, pairOut, pairPc>>
migVars == <<srcFiles, dryRun, cfgBatch, mPc, mGroups, mIdx, mUpload, mCount, mBatch,
             mSleeps, mOutcome>>
logVars == <<readLog, infoLog, uploadLog, writeLog, ledgerAtStart, runNo,
             killedAt, videoFailed, unsupRun, imageFailed>>
verVars == <<remoteBulk, remoteDirect, localHash, vLog, vPc, vToVerify, vI,
             vLists, vCounts, vResult, vLooked, vLogAtStart>>
retryVars == <<rPc, rFailed, rI, rCount, rExit>>
albumVars == <<synAlbums, immAlbums, albumTable>>
avVars == <<albHash, immAssets, videoAsset, avPc, avMatched, avI, avVerified,
            avResults, avLog, avReport, avReads, avRun, avBatch, avExit>>
amVars == <<amPc, amDryRun, amI, amCount, amCalls, amAdds, amTableAtStart,
           amOutcome, amRun>>
exVars == <<exPath, exLocal, exSmb, exPc>>
bfVars == <<bfPc, bfRemote, bfExisting, bfMissing, bfI>>
upVars == <<upPc, upReply, upResult>>
gaVars == <<gaPc, gaServer, gaErrorAt, gaPage, gaAll, gaRequests>>
vars == <<ledger, lastCall, prevStatus, pairIn, pairOut, pairPc, srcFiles,
          dryRun, cfgBatch, mPc, mGroups, mIdx, mUpload, mCount, mBatch, mSleeps,
          mOutcome, readLog, infoLog, uploadLog, writeLog, ledgerAtStart,
          runNo, killedAt, videoFailed, unsupRun, imageFailed, remoteBulk, remoteDirect, localHash,
          vLog, vPc, vToVerify, vI, vLists, vCounts, vResult, vLooked,
          vLogAtStart, rPc, rFailed, rI, rCount, rExit, synAlbums, immAlbums,
          albumTable, albHash, immAssets, videoAsset, avPc, avMatched, avI,
          avVerified, avResults, avLog, avReport, avReads, avRun, avBatch,
          avExit, amPc,
          amDryRun, amI, amCount, amCalls, amAdds, amTableAtStart, amOutcome,
          amRun,
          exPath, exLocal, exSmb, exPc,
          bfPc, bfRemote, bfExisting, bfMissing, bfI,
          upPc, upReply, upResult,
          gaPc, gaServer, gaErrorAt, gaPage, gaAll, gaRequests>>

NoCall == [p \in Paths |-> NoRow]

\* progress_tracker.record_file(...): the upsert and its commit.
DoRecord(row) ==
    /\ ledger' = RecordFile(ledger, row)
    /\ lastCall' = [lastCall EXCEPT ![row.source_path] = row]
    /\ prevStatus' = [prevStatus EXCEPT ![row.source_path] =
                        IF GetFile(ledger, row.source_path) = NoRow THEN None
                        ELSE GetFile(ledger, row.source_path).status]

PairIdle ==
    /\ pairIn = <<>>
    /\ pairOut = <<>>
    /\ pairPc = "idle"

NoUpload == [success |-> FALSE, asset_id |-> None, error_message |-> None,
             is_unsupported |-> FALSE]

ZeroCount == [total_files |-> 0, success_count |-> 0, failed_count |-> 0,
              skipped_count |-> 0, unsupported_count |-> 0]

MigIdle ==
    /\ dryRun = FALSE
    /\ cfgBatch = [batch_size |-> 100, batch_delay |-> 1]
    /\ mPc = "off"
    /\ mGroups = <<>>
    /\ mIdx = 0
    /\ mUpload = NoUpload
    /\ mCount = ZeroCount
    /\ mBatch = 0
    /\ mSleeps = <<>>
    /\ mOutcome = <<>>

LogIdle ==
    /\ readLog = {}
    /\ infoLog = {}
    /\ uploadLog = {}
    /\ writeLog = {}
    /\ ledgerAtStart = <<>>
    /\ runNo = 0
    /\ killedAt = 0
    /\ videoFailed = {}
    /\ unsupRun = [p \in Paths |-> 0]
    /\ imageFailed = {}

NoLists == [missing_files |-> <<>>, hash_mismatches |-> <<>>, not_in_db |-> <<>>]

NoResult == [local_file_count |-> 0, immich_asset_count |-> 0,
             missing_in_immich |-> <<>>, hash_mismatches |-> <<>>,
             not_in_db |-> <<>>]

VerAssets == {"asset1", "asset2", "asset3"}

VerIdle ==
    /\ remoteBulk = [a \in VerAssets |-> "absent"]
    /\ remoteDirect = [a \in VerAssets |-> "absent"]
    /\ localHash = [p \in Paths |-> "c1"]
    /\ vLog = <<>>
    /\ vPc = "off"
    /\ vToVerify = <<>>
    /\ vI = 0
    /\ vLists = NoLists
    /\ vCounts = [total_files |-> 0, immich_count |-> 0]
    /\ vResult = NoResult
    /\ vLooked = {}
    /\ vLogAtStart = <<>>

RetryIdle ==
    /\ rPc = "off"
    /\ rFailed = <<>>
    /\ rI = 0
    /\ rCount = [success_count |-> 0, failed_count |-> 0]
    /\ rExit = None

\* An album of the source: SynologyAlbum.id and SynologyAlbum.name.
SynologyAlbum(id, name) == [id |-> id, name |-> name]

\* An album of the destination: the "id" and "albumName" of its summary.
ImmichAlbum(id, name) == [id |-> id, albumName |-> name]

\* immich_by_name.get(...) or immich_by_id.get(...) found no album.
NoImmichAlbum == ImmichAlbum(None, None)

\* No report has been written to output_file.
NoReport == [written |-> FALSE]

SynIds == {1, 2}
ImmIds == {"x", "y"}

\* get_album_by_synology_id(...) found no row.
NoAlbumRow == [synology_album_id |-> 0, synology_album_name |-> None,
               immich_album_id |-> None]

AlbumIdle ==
    /\ synAlbums = <<>>
    /\ immAlbums = <<>>
    /\ albumTable = [s \in SynIds |-> NoAlbumRow]

\* The member files of the source albums checked.
AlbumFileIds == {IMG_HEIC, IMG_MOV, B_JPG}
CompanionIds == {"v1"}

AvIdle ==
    /\ albHash = [f \in AlbumFileIds |-> "c1"]
    /\ immAssets = [i \in ImmIds |-> {}]
    /\ videoAsset = [v \in CompanionIds |-> None]
    /\ avPc = "off"
    /\ avMatched = <<>>
    /\ avI = 0
    /\ avVerified = {}
    /\ avResults = <<>>
    /\ avLog = <<>>
    /\ avReport = NoReport
    /\ avReads = {}
    /\ avRun = 0
    /\ avBatch = 100
    /\ avExit = None

AmIdle ==
    /\ amPc = "off"
    /\ amDryRun = FALSE
    /\ amI = 0
    /\ amCount = [success_count |-> 0, failed_count |-> 0, skipped_count |-> 0]
    /\ amCalls = <<>>
    /\ amAdds = <<>>
    /\ amTableAtStart = [s \in SynIds |-> NoAlbumRow]
    /\ amOutcome = <<>>
    /\ amRun = 0

ExIdle ==
    /\ exPath = <<>>
    /\ exLocal = [should_exclude |-> FALSE, listed |-> FALSE]
    /\ exSmb = [should_exclude |-> FALSE, listed |-> FALSE]
    /\ exPc = "off"

\* No reply of the upload endpoint has been parsed.
NoReply == [kind |-> None]

BfIdle ==
    /\ bfPc = "off"
    /\ bfRemote = <<>>
    /\ bfExisting = <<>>
    /\ bfMissing = <<>>
    /\ bfI = 0

UpIdle ==
    /\ upPc = "off"
    /\ upReply = NoReply
    /\ upResult = NoUpload

GaIdle ==
    /\ gaPc = "off"
    /\ gaServer = <<>>
    /\ gaErrorAt = 0
    /\ gaPage = 0
    /\ gaAll = <<>>
    /\ gaRequests = <<>>

\* The variables of the backfill command and of the remote asset client,
\* at rest.
ClientIdle == BfIdle /\ UpIdle /\ GaIdle

\* The variables of the album commands, of the exclusion filter, of the
\* backfill command and of the remote asset client, at rest.
RestIdle == AlbumIdle /\ AvIdle /\ AmIdle /\ ExIdle /\ ClientIdle

LedgerIdle ==
    /\ ledger = <<>>
    /\ lastCall = NoCall
    /\ prevStatus = [p \in Paths |-> None]

(***************************************************************************)
(* The ledger alone: any sequence of record_file calls.                    *)
(***************************************************************************)
LedgerPaths == {P("/a", "IMG", ".jpg"), P("/a", "IMG", ".MOV")}
\* (source_hash, source_size, source_mtime): the placeholders the orchestrator
\* passes, or the values of a file that was measured.
Metas == {<<None, 0, "">>, <<"h1", 1, "t1">>}
AssetIds == {"asset1", "asset2"}
Errors == {None, "err"}

LedgerInit ==
    /\ RestIdle
    /\ LedgerIdle /\ PairIdle /\ MigIdle /\ LogIdle /\ VerIdle /\ RetryIdle
    /\ srcFiles = <<>>

RecordFileCall ==
    /\ \E p \in LedgerPaths, m \in Metas,
          a \in {None, "asset1"}, s \in FileStatus, e \in Errors :
          DoRecord(Row(p, m[1], m[2], m[3], a, s, e))
    /\ UNCHANGED <<pairVars, albumVars, avVars, amVars, exVars, bfVars, upVars, gaVars, migVars, logVars, verVars, retryVars>>

LedgerNext == RecordFileCall

SpecLedger == LedgerInit /\ [][LedgerNext]_vars

\* C5: after any sequence of record_file calls the ledger holds at most one
\* row per source_path, and that row carries exactly the status, asset id,
\* error message, size, mtime and hash of the latest call for the path.
LedgerUpsertLatest ==
    \A p \in Paths :
        /\ Cardinality(RowsOf(ledger, p)) <= 1
        /\ (RowsOf(ledger, p) # {}) <=> (lastCall[p] # NoRow)
        /\ \A i \in RowsOf(ledger, p) : ledger[i] = lastCall[p]

\* A path recorded FAILED and then recorded again as SUCCESS with an asset id.
LedgerUpsertWitness ==
    \E p \in LedgerPaths :
        /\ prevStatus[p] = FAILED
        /\ lastCall[p].status = SUCCESS
        /\ lastCall[p].immich_asset_id = "asset1"
        /\ Len(ledger) = 2

\* C6: is_migrated(path) is true iff a record exists and the most recently
\* recorded status for the path is SUCCESS.
IsMigratedIffLatestSuccess ==
    \A p \in Paths :
        IsMigrated(ledger, p) <=>
            (lastCall[p] # NoRow /\ lastCall[p].status = SUCCESS)

\* FAILED or UNSUPPORTED recorded after a prior SUCCESS: no longer migrated.
IsMigratedFlipWitness ==
    \E p, q \in LedgerPaths :
        /\ prevStatus[p] = SUCCESS /\ lastCall[p].status = FAILED
        /\ ~IsMigrated(ledger, p)
        /\ prevStatus[q] = SUCCESS /\ lastCall[q].status = UNSUPPORTED
        /\ ~IsMigrated(ledger, q)

(***************************************************************************)
(* The pairer alone: pair_files applied to any list of distinct paths.     *)
(***************************************************************************)
MaxFiles == 3

\* The files the listings handed to the pairer are drawn from.
PairPaths == {p \in Paths : p.dir = "/a" \/ p.name = "IMG"}

PairInit ==
    /\ RestIdle
    /\ LedgerIdle /\ MigIdle /\ LogIdle /\ VerIdle /\ RetryIdle
    /\ srcFiles = <<>>
    /\ pairIn \in SeqsNoDup(PairPaths, MaxFiles)
    /\ pairOut = <<>>
    /\ pairPc = "idle"

PairFiles ==
    /\ pairPc = "idle"
    /\ pairOut' = pair_files(pairIn)
    /\ pairPc' = "done"
    /\ UNCHANGED <<pairIn, ledgerVars, migVars, logVars, verVars, retryVars,
                   albumVars, avVars, amVars, exVars, bfVars, upVars, gaVars>>

PairNext == PairFiles

SpecPair == PairInit /\ [][PairNext]_vars

\* C4: the groups pair_files emits cover every input file exactly once:
\* each input path is the image_path or video_path of exactly one group, and
\* no emitted path is absent from the input.
PairCoversEveryFileOnce ==
    pairPc = "done" =>
        \A p \in Paths :
            Occurrences(EmittedPaths(pairOut), p) =
                (IF p \in Range(pairIn) THEN 1 ELSE 0)

(***************************************************************************)
(* Migration orchestrator: Migrator.run and Migrator._process_group, one   *)
(* step per call to the reader or the remote client, so that the process   *)
(* can be killed between any two of them.                                  *)
(***************************************************************************)
MaxRuns == 2

\* The source trees of the runs checked, as the reader enumerates them.
MigTrees == {<<IMG_MOV, B_JPG, IMG_HEIC>>, <<B_MP4, B_JPG>>}

BatchConfigs == {[batch_size |-> 2, batch_delay |-> 1],
                 [batch_size |-> 1, batch_delay |-> 0]}

\* len(file_data) of a file that was read.
DataLen(path) == 1

\* What ImmichClient.upload_asset can return.
UploadOk(asset) == [success |-> TRUE, asset_id |-> asset,
                    error_message |-> None, is_unsupported |-> FALSE]
UploadUnsupported == [success |-> FALSE, asset_id |-> None,
                      error_message |-> "unsupported", is_unsupported |-> TRUE]
UploadFailed == [success |-> FALSE, asset_id |-> None,
                 error_message |-> "err", is_unsupported |-> FALSE]
UploadResults == {UploadOk(a) : a \in AssetIds} \cup {UploadUnsupported, UploadFailed}

\* The error texts the orchestrator composes.
ReadErrorText == "read error"
VideoReadErrorText == "video read error"
VideoUploadErrorText(msg) == IF msg = "unsupported" THEN "video unsupported"
                             ELSE "video err"

Group == mGroups[mIdx]

\* A mutation of _is_group_migrated: a Live Photo counts as migrated only
\* when its video is migrated too.
IsGroupMigratedWithVideo(group) ==
    /\ IsMigrated(ledger, group.image_path)
    /\ group.video_path # NoFile => IsMigrated(ledger, group.video_path)

_is_group_migrated(group) == IsMigrated(ledger, group.image_path)

\* The ghost record of an upload_asset result with is_unsupported.
NoteUnsupported(path, result) ==
    unsupRun' = IF result.is_unsupported /\ unsupRun[path] = 0
                THEN [unsupRun EXCEPT ![path] = runNo]
                ELSE unsupRun

\* A record_file call of the orchestrator, with the log of ledger writes.
MigRecord(row) ==
    /\ DoRecord(row)
    /\ writeLog' = writeLog \cup {row.source_path}

_record_success(group, asset_id) ==
    MigRecord(Row(group.image_path, None, 0, "", asset_id, SUCCESS, None))

\* A mutation of _record_failure: the row carries no error message.
RecordFailureNoMessage(group, error_message) ==
    MigRecord(Row(group.image_path, None, 0, "", None, FAILED, None))

_record_failure(group, error_message) ==
    MigRecord(Row(group.image_path, None, 0, "", None, FAILED, error_message))

_record_unsupported(group, error_message) ==
    MigRecord(Row(group.image_path, None, 0, "", None, UNSUPPORTED, error_message))

\* A mutation of the batch wait: it is taken one group before the batch is
\* full.
CountedSleepingEarly(result, skipped) ==
    /\ mCount' = [mCount EXCEPT
          !.total_files = @ + 1,
          !.skipped_count = IF skipped THEN @ + 1 ELSE @,
          !.success_count = IF ~skipped /\ result = "success" THEN @ + 1 ELSE @,
          !.failed_count = IF ~skipped /\ result = "failed" THEN @ + 1 ELSE @,
          !.unsupported_count =
              IF ~skipped /\ result = "unsupported" THEN @ + 1 ELSE @]
    /\ mOutcome' = Append(mOutcome, IF skipped THEN "skipped" ELSE result)
    /\ LET sleeps == /\ ~skipped
                     /\ mBatch + 2 >= cfgBatch.batch_size
                     /\ cfgBatch.batch_delay > 0
       IN /\ mSleeps' = Append(mSleeps, sleeps)
          /\ mBatch' = IF skipped THEN mBatch
                       ELSE IF sleeps THEN 0 ELSE mBatch + 1
    /\ mIdx' = mIdx + 1
    /\ mPc' = IF mIdx = Len(mGroups) THEN "done" ELSE "check"

\* The rest of the loop body of run once the group's result is known: the
\* counters, the batch wait, and the next iteration or the end of the loop.
Counted(result, skipped) ==
    /\ mCount' = [mCount EXCEPT
          !.total_files = @ + 1,
          !.skipped_count = IF skipped THEN @ + 1 ELSE @,
          !.success_count = IF ~skipped /\ result = "success" THEN @ + 1 ELSE @,
          !.failed_count = IF ~skipped /\ result = "failed" THEN @ + 1 ELSE @,
          !.unsupported_count =
              IF ~skipped /\ result = "unsupported" THEN @ + 1 ELSE @]
    /\ mOutcome' = Append(mOutcome, IF skipped THEN "skipped" ELSE result)
    /\ LET sleeps == /\ ~skipped
                     /\ mBatch + 1 >= cfgBatch.batch_size
                     /\ cfgBatch.batch_delay > 0
       IN /\ mSleeps' = Append(mSleeps, sleeps)
          /\ mBatch' = IF skipped THEN mBatch
                       ELSE IF sleeps THEN 0 ELSE mBatch + 1
    /\ mIdx' = mIdx + 1
    /\ mPc' = IF mIdx = Len(mGroups) THEN "done" ELSE "check"

\* run, up to the for loop: list the files, pair them, zero the counters.
MigStart ==
    /\ mPc \in {"idle", "done", "killed"}
    /\ runNo < MaxRuns
    /\ runNo' = runNo + 1
    /\ killedAt' = IF mPc = "killed" THEN killedAt ELSE 0
    /\ \E d \in BOOLEAN : dryRun' = d
    /\ mGroups' = pair_files(srcFiles)
    /\ mIdx' = 1
    /\ mPc' = IF pair_files(srcFiles) = <<>> THEN "done" ELSE "check"
    /\ mUpload' = NoUpload
    /\ mCount' = ZeroCount
    /\ mBatch' = 0
    /\ mSleeps' = <<>>
    /\ mOutcome' = <<>>
    /\ readLog' = {} /\ infoLog' = {} /\ uploadLog' = {} /\ writeLog' = {}
    /\ ledgerAtStart' = ledger
    /\ videoFailed' = {}
    /\ imageFailed' = {}
    /\ UNCHANGED <<srcFiles, cfgBatch, unsupRun, ledgerVars, pairVars, albumVars, avVars, amVars, exVars, bfVars, upVars, gaVars, verVars, retryVars>>

\* A mutation of the loop head: the migrated group is not skipped.
MigCheckNoSkip ==
    /\ mPc = "check"
    /\ mPc' = "read_image"
    /\ UNCHANGED <<srcFiles, dryRun, cfgBatch, mGroups, mIdx, mUpload, mCount,
                   mBatch, mSleeps, mOutcome, ledgerVars, pairVars, albumVars, avVars, amVars, exVars, bfVars, upVars, gaVars, verVars, retryVars, logVars>>

\* A mutation of the dry-run branch: the group is processed all the same.
MigCheckDryRunUploads ==
    /\ mPc = "check"
    /\ IF _is_group_migrated(Group)
       THEN /\ Counted("skipped", TRUE)
            /\ UNCHANGED <<srcFiles, dryRun, cfgBatch, mGroups, mUpload,
                           ledgerVars, pairVars, albumVars, avVars, amVars, exVars, bfVars, upVars, gaVars, verVars, retryVars, logVars>>
       ELSE /\ mPc' = "read_image"
            /\ UNCHANGED <<srcFiles, dryRun, cfgBatch, mGroups, mIdx, mUpload,
                           mCount, mBatch, mSleeps, mOutcome, ledgerVars,
                           pairVars, albumVars, avVars, amVars, exVars, bfVars, upVars, gaVars, verVars, retryVars, logVars>>

\* The loop head: a migrated group is skipped; under dry_run _process_group
\* returns "success" at once; otherwise the image is read next.
MigCheck ==
    /\ mPc = "check"
    /\ IF _is_group_migrated(Group)
       THEN /\ Counted("skipped", TRUE)
            /\ UNCHANGED <<srcFiles, dryRun, cfgBatch, mGroups, mUpload,
                           ledgerVars, pairVars, albumVars, avVars, amVars, exVars, bfVars, upVars, gaVars, verVars, retryVars, logVars>>
       ELSE IF dryRun
       THEN /\ Counted("success", FALSE)
            /\ UNCHANGED <<srcFiles, dryRun, cfgBatch, mGroups, mUpload,
                           ledgerVars, pairVars, albumVars, avVars, amVars, exVars, bfVars, upVars, gaVars, verVars, retryVars, logVars>>
       ELSE /\ mPc' = "read_image"
            /\ UNCHANGED <<srcFiles, dryRun, cfgBatch, mGroups, mIdx, mUpload,
                           mCount, mBatch, mSleeps, mOutcome, ledgerVars,
                           pairVars, albumVars, avVars, amVars, exVars, bfVars, upVars, gaVars, verVars, retryVars, logVars>>

\* reader.read_file(group.image_path): the bytes, or an exception, which is
\* recorded as FAILED and ends the group.
MigReadImage ==
    /\ mPc = "read_image"
    /\ readLog' = readLog \cup {Group.image_path}
    /\ \E ok \in BOOLEAN :
        IF ok
        THEN /\ mPc' = "upload_image"
             /\ UNCHANGED <<mIdx, mCount, mBatch, mSleeps, mOutcome, writeLog,
                            ledgerVars, imageFailed>>
        ELSE /\ _record_failure(Group, ReadErrorText)
             /\ imageFailed' = imageFailed \cup {mIdx}
             /\ Counted("failed", FALSE)
    /\ UNCHANGED <<srcFiles, dryRun, cfgBatch, mGroups, mUpload, pairVars, albumVars, avVars, amVars, exVars, bfVars, upVars, gaVars, verVars, retryVars,
                   infoLog, uploadLog, ledgerAtStart, runNo, killedAt,
                   videoFailed, unsupRun>>

\* immich_client.upload_asset of the image.
MigUploadImage ==
    /\ mPc = "upload_image"
    /\ uploadLog' = uploadLog \cup {Group.image_path}
    /\ \E r \in UploadResults :
        /\ mUpload' = r
        /\ NoteUnsupported(Group.image_path, r)
        /\ mPc' = IF is_live_photo(Group) /\ Group.video_path # NoFile /\ r.success
                  THEN "read_video" ELSE "record"
    /\ UNCHANGED <<srcFiles, dryRun, cfgBatch, mGroups, mIdx, mCount, mBatch,
                   mSleeps, mOutcome, ledgerVars, pairVars, albumVars, avVars, amVars, exVars, bfVars, upVars, gaVars, verVars, retryVars, readLog, infoLog,
                   writeLog, ledgerAtStart, runNo, killedAt, videoFailed,
                   imageFailed>>

\* reader.read_file(group.video_path): an exception is recorded as FAILED
\* under the video path.
MigReadVideo ==
    /\ mPc = "read_video"
    /\ readLog' = readLog \cup {Group.video_path}
    /\ \E ok \in BOOLEAN :
        IF ok
        THEN /\ mPc' = "upload_video"
             /\ UNCHANGED <<writeLog, ledgerVars, videoFailed>>
        ELSE /\ MigRecord(Row(Group.video_path, None, 0, "", None, FAILED,
                              VideoReadErrorText))
             /\ videoFailed' = videoFailed \cup {mIdx}
             /\ mPc' = "record"
    /\ UNCHANGED <<srcFiles, dryRun, cfgBatch, mGroups, mIdx, mUpload, mCount,
                   mBatch, mSleeps, mOutcome, pairVars, albumVars, avVars, amVars, exVars, bfVars, upVars, gaVars, verVars, retryVars, infoLog, uploadLog,
                   ledgerAtStart, runNo, killedAt, unsupRun, imageFailed>>

\* immich_client.upload_asset of the video, and the video's own ledger row.
MigUploadVideo ==
    /\ mPc = "upload_video"
    /\ uploadLog' = uploadLog \cup {Group.video_path}
    /\ \E video_result \in UploadResults :
        /\ NoteUnsupported(Group.video_path, video_result)
        /\ IF video_result.success
           THEN /\ MigRecord(Row(Group.video_path, None,
                                 DataLen(Group.video_path), "",
                                 video_result.asset_id, SUCCESS, None))
                /\ UNCHANGED videoFailed
           ELSE /\ MigRecord(Row(Group.video_path, None,
                                 DataLen(Group.video_path), "", None, FAILED,
                                 VideoUploadErrorText(video_result.error_message)))
                /\ videoFailed' = videoFailed \cup {mIdx}
    /\ mPc' = "record"
    /\ UNCHANGED <<srcFiles, dryRun, cfgBatch, mGroups, mIdx, mUpload, mCount,
                   mBatch, mSleeps, mOutcome, pairVars, albumVars, avVars, amVars, exVars, bfVars, upVars, gaVars, verVars, retryVars, readLog, infoLog,
                   ledgerAtStart, runNo, killedAt, imageFailed>>

\* A mutation of the result handling: is_unsupported is not looked at.
ResultOfIgnoringUnsupported(upload_result) ==
    IF upload_result.success THEN "success" ELSE "failed"

\* A mutation of the result handling: a failed upload gives a result that
\* run counts nowhere.
ResultOfUncounted(upload_result) ==
    IF upload_result.success THEN "success" ELSE "error"

\* The result handling at the end of _process_group: the group's result
\* follows the image's upload_result alone.
ResultOf(upload_result) ==
    IF upload_result.success THEN "success"
    ELSE IF upload_result.is_unsupported THEN "unsupported"
    ELSE "failed"

\* The image's ledger row and the return value of _process_group.
MigRecordResult ==
    /\ mPc = "record"
    /\ LET result == ResultOf(mUpload)
       IN /\ CASE result = "success" -> _record_success(Group, mUpload.asset_id)
               [] result = "unsupported" ->
                     _record_unsupported(Group, mUpload.error_message)
               [] OTHER -> _record_failure(Group, mUpload.error_message)
          /\ Counted(result, FALSE)
    /\ UNCHANGED <<srcFiles, dryRun, cfgBatch, mGroups, mUpload, pairVars, albumVars, avVars, amVars, exVars, bfVars, upVars, gaVars, verVars, retryVars,
                   readLog, infoLog, uploadLog, ledgerAtStart, runNo, killedAt,
                   videoFailed, unsupRun, imageFailed>>

\* The process is killed while a group is in flight; the ledger file stays.
MigKill ==
    /\ mPc \in {"check", "read_image", "upload_image", "read_video",
                "upload_video", "record"}
    /\ mPc' = "killed"
    /\ killedAt' = mIdx
    /\ UNCHANGED <<srcFiles, dryRun, cfgBatch, mGroups, mIdx, mUpload, mCount,
                   mBatch, mSleeps, mOutcome, ledgerVars, pairVars, albumVars, avVars, amVars, exVars, bfVars, upVars, gaVars, verVars, retryVars, readLog,
                   infoLog, uploadLog, writeLog, ledgerAtStart, runNo,
                   videoFailed, unsupRun, imageFailed>>

MigInit ==
    /\ RestIdle
    /\ LedgerIdle /\ PairIdle /\ LogIdle /\ VerIdle /\ RetryIdle
    /\ srcFiles \in MigTrees
    /\ dryRun = FALSE
    /\ cfgBatch \in BatchConfigs
    /\ mPc = "idle"
    /\ mGroups = <<>>
    /\ mIdx = 0
    /\ mUpload = NoUpload
    /\ mCount = ZeroCount
    /\ mBatch = 0
    /\ mSleeps = <<>>
    /\ mOutcome = <<>>

MigNext ==
    \/ MigStart
    \/ MigCheck
    \/ MigReadImage
    \/ MigUploadImage
    \/ MigReadVideo
    \/ MigUploadVideo
    \/ MigRecordResult
    \/ MigKill

SpecMigrate == MigInit /\ [][MigNext]_vars

\* The positions of groups this run has finished with.
Finished == 1..Len(mOutcome)

PathsOfGroup(group) == Range(GroupPaths(group))

Touched == readLog \cup uploadLog \cup writeLog

\* C1: a Live Photo pair whose image upload succeeded but whose video read or
\* video upload failed is counted as failed, not as success, and the video
\* path's own ledger row shows FAILED.
LivePhotoVideoFailureIsFailed ==
    \A i \in Finished :
        i \in videoFailed =>
            /\ mOutcome[i] = "failed"
            /\ GetFile(ledger, mGroups[i].video_path) # NoRow
            /\ GetFile(ledger, mGroups[i].video_path).status = FAILED

\* C2: for a Live Photo pair the image path is SUCCESS in the ledger, so that
\* is_migrated(image_path) holds, only if the video was uploaded too: the
\* pair is migrated as a whole or not at all.
PairMigratedAtomically ==
    \A i \in 1..Len(mGroups) :
        (is_live_photo(mGroups[i]) /\ IsMigrated(ledger, mGroups[i].image_path))
            => IsMigrated(ledger, mGroups[i].video_path)

\* C7: a group whose image path is migrated when run reaches it is counted
\* as skipped, and neither of its paths is read, uploaded or written to the
\* ledger by the run.
MigratedGroupIsSkipped ==
    \A i \in Finished :
        IsMigrated(ledgerAtStart, mGroups[i].image_path) =>
            /\ mOutcome[i] = "skipped"
            /\ PathsOfGroup(mGroups[i]) \cap Touched = {}
            /\ \A p \in PathsOfGroup(mGroups[i]) :
                   GetFile(ledger, p) = GetFile(ledgerAtStart, p)

\* A second run that skipped a migrated Live Photo pair and went on to
\* upload another group.
MigratedGroupIsSkippedWitness ==
    /\ runNo = 2
    /\ ~dryRun
    /\ \E i \in Finished :
          /\ is_live_photo(mGroups[i])
          /\ IsMigrated(ledgerAtStart, mGroups[i].image_path)
          /\ mCount.skipped_count = 1
    /\ uploadLog # {}

\* C8: under dry-run every group that is not yet migrated is counted as
\* success, nothing is read or uploaded, and the ledger stays as it was
\* when the run started.
DryRunLeavesLedger ==
    (dryRun /\ mPc \notin {"off", "idle"}) =>
        /\ Touched = {}
        /\ ledger = ledgerAtStart
        /\ \A i \in Finished :
              ~IsMigrated(ledgerAtStart, mGroups[i].image_path)
                  => mOutcome[i] = "success"

\* A finished dry run over a ledger that already holds rows, with a group
\* counted as success and another skipped.
DryRunLeavesLedgerWitness ==
    /\ dryRun /\ mPc = "done"
    /\ ledger # <<>>
    /\ mCount.success_count >= 1
    /\ mCount.skipped_count >= 1

(***************************************************************************)
(* File-level verification: Verifier.verify_with_hash, one step per        *)
(* iteration of its loop, each of which ends with the flushed log line.    *)
(***************************************************************************)
\* Python's order on the path strings of the universe: the stems have equal
\* length, so it is the order on (directory, stem, extension).
Rank(x) ==
    CASE x = "/a" -> 1 [] x = "/b" -> 2
      [] x = "IMG" -> 1 [] x = "PIC" -> 2 [] x = "img" -> 3
      [] x = ".HEIC" -> 1 [] x = ".MOV" -> 2 [] x = ".jpg" -> 3 [] x = ".mp4" -> 4

PathLess(p, q) ==
    \/ Rank(p.dir) < Rank(q.dir)
    \/ p.dir = q.dir /\ Rank(p.name) < Rank(q.name)
    \/ p.dir = q.dir /\ p.name = q.name /\ Rank(p.ext) < Rank(q.ext)

RECURSIVE Insert(_, _)
Insert(sorted, p) ==
    IF sorted = <<>> THEN <<p>>
    ELSE IF PathLess(p, Head(sorted)) THEN <<p>> \o sorted
    ELSE <<Head(sorted)>> \o Insert(Tail(sorted), p)

\* A mutation of the listing: the files stay in the reader's order.
ReaderOrder(files) == files

\* sorted(file_reader.list_files(), key=lambda f: f.path)
RECURSIVE SortByPath(_)
SortByPath(files) ==
    IF files = <<>> THEN <<>>
    ELSE Insert(SortByPath(Tail(files)), Head(files))

\* asset_checksums.get(asset_id): None for an asset the listing omits and for
\* one listed without a checksum.
BulkChecksum(asset_id) ==
    IF remoteBulk[asset_id] = "absent" THEN None ELSE remoteBulk[asset_id]

\* The log line and the result list one iteration of the loop ends with.
Outcome(status, list, reads) == [status |-> status, list |-> list, reads |-> reads]

\* A mutation of the checksum lookup: an asset the bulk listing omits is
\* not looked up by its id.
VerifyOutcomeBulkOnly(source_path) ==
    LET db_record == GetFile(ledger, source_path)
    IN IF db_record = NoRow
       THEN Outcome("not_in_db", "not_in_db", FALSE)
       ELSE IF db_record.immich_asset_id = None
       THEN Outcome("missing", "missing_files", FALSE)
       ELSE LET immich_checksum == BulkChecksum(db_record.immich_asset_id)
            IN IF immich_checksum = None
               THEN Outcome("missing", "missing_files", FALSE)
               ELSE IF localHash[source_path] = "raise"
               THEN Outcome("error", "missing_files", TRUE)
               ELSE IF localHash[source_path] # immich_checksum
               THEN Outcome("mismatch", "hash_mismatches", TRUE)
               ELSE Outcome("ok", "none", TRUE)

VerifyOutcome(source_path) ==
    LET db_record == GetFile(ledger, source_path)
    IN IF db_record = NoRow
       THEN Outcome("not_in_db", "not_in_db", FALSE)
       ELSE IF db_record.immich_asset_id = None
       THEN Outcome("missing", "missing_files", FALSE)
       ELSE LET asset_id == db_record.immich_asset_id
                bulk == BulkChecksum(asset_id)
                immich_checksum ==
                    IF bulk # None THEN bulk ELSE remoteDirect[asset_id]
            IN IF bulk = None /\ remoteDirect[asset_id] = "absent"
               THEN Outcome("missing", "missing_files", FALSE)
               ELSE IF immich_checksum = None
               THEN Outcome("missing", "missing_files", FALSE)
               ELSE IF localHash[source_path] = "raise"
               THEN Outcome("error", "missing_files", TRUE)
               ELSE IF localHash[source_path] # immich_checksum
               THEN Outcome("mismatch", "hash_mismatches", TRUE)
               ELSE Outcome("ok", "none", TRUE)

AppendTo(lists, list, path) ==
    IF list = "none" THEN lists
    ELSE [lists EXCEPT ![list] = Append(@, path)]

\* The list a line of the resume file is put back on when it is loaded.
ListOfStatus(status) ==
    CASE status = "missing" -> "missing_files"
      [] status = "mismatch" -> "hash_mismatches"
      [] status = "not_in_db" -> "not_in_db"
      [] OTHER -> "none"

\* Reading the resume file back: the three lists, in line order.
RECURSIVE LoadLists(_, _)
LoadLists(log, lists) ==
    IF log = <<>> THEN lists
    ELSE LoadLists(Tail(log),
                   AppendTo(lists, ListOfStatus(Head(log).status), Head(log).path))

\* A mutation of the resume loader: the lines with status ok are not taken
\* as verified.
VerifiedPathsNotOk(log) ==
    {log[i].path : i \in {j \in 1..Len(log) : log[j].status # "ok"}}

verified_paths(log) == {log[i].path : i \in 1..Len(log)}

\* A mutation of the resume filter: the logged paths are verified again.
UnverifiedAll(local_files, verified) == local_files

\* to_verify = [f for f in local_files if f.path not in verified_paths]
RECURSIVE Unverified(_, _)
Unverified(local_files, verified) ==
    IF local_files = <<>> THEN <<>>
    ELSE IF Head(local_files) \in verified
    THEN Unverified(Tail(local_files), verified)
    ELSE <<Head(local_files)>> \o Unverified(Tail(local_files), verified)

VerificationResult(counts, lists) ==
    [local_file_count |-> counts.total_files,
     immich_asset_count |-> counts.immich_count,
     missing_in_immich |-> lists.missing_files,
     hash_mismatches |-> lists.hash_mismatches,
     not_in_db |-> lists.not_in_db]

\* A mutation of is_valid: the files without a ledger record count too.
IsValidCountingNotInDb(result) ==
    /\ Len(result.missing_in_immich) = 0
    /\ Len(result.hash_mismatches) = 0
    /\ Len(result.not_in_db) = 0

is_valid(result) ==
    Len(result.missing_in_immich) = 0 /\ Len(result.hash_mismatches) = 0

\* verify_with_hash up to its loop: the remote listing, the sorted local
\* listing, the resume file, and the paths left to verify.
VerStart ==
    /\ vPc \in {"idle", "done", "killed"}
    /\ runNo < MaxRuns
    /\ runNo' = runNo + 1
    /\ killedAt' = IF vPc = "killed" THEN killedAt ELSE 0
    /\ LET local_files == SortByPath(srcFiles)
           counts == [total_files |-> Len(local_files),
                      immich_count |->
                          Cardinality({a \in VerAssets : remoteBulk[a] # "absent"})]
           lists == LoadLists(vLog, NoLists)
           to_verify == Unverified(local_files, verified_paths(vLog))
       IN /\ vCounts' = counts
          /\ vLists' = lists
          /\ vToVerify' = to_verify
          /\ vI' = 1
          /\ vPc' = IF to_verify = <<>> THEN "done" ELSE "loop"
          /\ vResult' = IF to_verify = <<>>
                        THEN VerificationResult(counts, lists) ELSE NoResult
    /\ vLooked' = {}
    /\ readLog' = {}
    /\ vLogAtStart' = vLog
    /\ UNCHANGED <<ledgerVars, pairVars, albumVars, avVars, amVars, exVars, bfVars, upVars, gaVars, migVars, retryVars, infoLog, uploadLog, writeLog,
                   ledgerAtStart, videoFailed, unsupRun, imageFailed, remoteBulk, remoteDirect,
                   localHash, vLog>>

\* One iteration of the loop: the ledger lookup, the checksum, the local
\* hash, and the line appended to the resume file and flushed.
VerFile ==
    /\ vPc = "loop"
    /\ LET source_path == vToVerify[vI]
           o == VerifyOutcome(source_path)
           lists == AppendTo(vLists, o.list, source_path)
       IN /\ vLooked' = vLooked \cup {source_path}
          /\ readLog' = IF o.reads THEN readLog \cup {source_path} ELSE readLog
          /\ vLists' = lists
          /\ vLog' = Append(vLog, [path |-> source_path, status |-> o.status])
          /\ vI' = vI + 1
          /\ vPc' = IF vI = Len(vToVerify) THEN "done" ELSE "loop"
          /\ vResult' = IF vI = Len(vToVerify)
                        THEN VerificationResult(vCounts, lists) ELSE NoResult
    /\ UNCHANGED <<ledgerVars, pairVars, albumVars, avVars, amVars, exVars, bfVars, upVars, gaVars, migVars, retryVars, infoLog, uploadLog, writeLog,
                   ledgerAtStart, runNo, killedAt, videoFailed, unsupRun, imageFailed, remoteBulk,
                   remoteDirect, localHash, vToVerify, vCounts, vLogAtStart>>

\* The process is killed between two iterations; the resume file stays.
VerKill ==
    /\ vPc = "loop"
    /\ vPc' = "killed"
    /\ killedAt' = vI
    /\ UNCHANGED <<ledgerVars, pairVars, albumVars, avVars, amVars, exVars, bfVars, upVars, gaVars, migVars, retryVars, readLog, infoLog, uploadLog,
                   writeLog, ledgerAtStart, runNo, videoFailed, unsupRun, imageFailed, remoteBulk,
                   remoteDirect, localHash, vLog, vToVerify, vI, vLists,
                   vCounts, vResult, vLooked, vLogAtStart>>

\* The source listing of the verification runs checked, in reader order.
VerListing == <<B_JPG, IMG_MOV, IMG_HEIC>>

VerAssetOf(p) ==
    CASE p = B_JPG -> "asset1" [] p = IMG_MOV -> "asset2" [] OTHER -> "asset3"

Checksums == {"c1", "c2"}

\* What is fixed about one path during verification: its ledger row, its
\* asset's checksum in the bulk listing and by direct lookup, and its bytes.
\* Fields the code cannot reach for the path are held at one value.
PathEnvs ==
    {e \in [row : {"none", "no_asset", "asset"},
            bulk : Checksums \cup {None},
            direct : Checksums \cup {None, "absent"},
            local : {"c1", "raise"}] :
        /\ e.row # "asset" => (e.bulk = None /\ e.direct = "absent" /\ e.local = "c1")
        /\ e.bulk # None => e.direct = "absent"
        /\ (e.bulk = None /\ e.direct \in {None, "absent"}) => e.local = "c1"}

\* The ledger a migration leaves for such paths.
RECURSIVE LedgerFor(_, _)
LedgerFor(files, env) ==
    IF files = <<>> THEN <<>>
    ELSE LET p == files[Len(files)]
             rest == LedgerFor(SubSeq(files, 1, Len(files) - 1), env)
         IN CASE env[p].row = "none" -> rest
              [] env[p].row = "no_asset" ->
                    RecordFile(rest, Row(p, None, 0, "", None, FAILED, "err"))
              [] OTHER ->
                    RecordFile(rest, Row(p, None, 0, "", VerAssetOf(p), SUCCESS, None))

VerInit ==
    /\ RestIdle
    /\ PairIdle /\ MigIdle /\ LogIdle /\ RetryIdle
    /\ \E env \in [Range(VerListing) -> PathEnvs] :
        /\ ledger = LedgerFor(VerListing, env)
        /\ remoteBulk = [a \in VerAssets |->
              LET p == CHOOSE q \in Range(VerListing) : VerAssetOf(q) = a
              IN IF env[p].row # "asset" THEN "absent" ELSE env[p].bulk]
        /\ remoteDirect = [a \in VerAssets |->
              LET p == CHOOSE q \in Range(VerListing) : VerAssetOf(q) = a
              IN env[p].direct]
        /\ localHash = [p \in Paths |->
              IF p \in Range(VerListing) THEN env[p].local ELSE "c1"]
    /\ lastCall = [p \in Paths |-> GetFile(ledger, p)]
    /\ prevStatus = [p \in Paths |-> None]
    /\ srcFiles = VerListing
    /\ vLog = <<>>
    /\ vPc = "idle"
    /\ vToVerify = <<>>
    /\ vI = 0
    /\ vLists = NoLists
    /\ vCounts = [total_files |-> 0, immich_count |-> 0]
    /\ vResult = NoResult
    /\ vLooked = {}
    /\ vLogAtStart = <<>>

VerNext ==
    \/ VerStart
    \/ VerFile
    \/ VerKill

SpecVerify == VerInit /\ [][VerNext]_vars

\* The result of one uninterrupted run from an empty resume file.
RECURSIVE UninterruptedLists(_, _)
UninterruptedLists(files, lists) ==
    IF files = <<>> THEN lists
    ELSE UninterruptedLists(Tail(files),
            AppendTo(lists, VerifyOutcome(Head(files)).list, Head(files)))

UninterruptedResult ==
    VerificationResult(
        [total_files |-> Len(srcFiles),
         immich_count |-> Cardinality({a \in VerAssets : remoteBulk[a] # "absent"})],
        UninterruptedLists(SortByPath(srcFiles), NoLists))

\* C3: a verification that was killed after some of the files and rerun with
\* the same progress log returns the VerificationResult (the three lists,
\* the counts, and so is_valid) of a single uninterrupted run.
ResumedResultEqualsUninterrupted ==
    vPc = "done" =>
        /\ vResult = UninterruptedResult
        /\ is_valid(vResult) = is_valid(UninterruptedResult)

(***************************************************************************)
(* The retry command (__main__.py), one step per failed file.              *)
(***************************************************************************)
RECURSIVE InsertRow(_, _)
InsertRow(sorted, row) ==
    IF sorted = <<>> THEN <<row>>
    ELSE IF PathLess(row.source_path, Head(sorted).source_path)
    THEN <<row>> \o sorted
    ELSE <<Head(sorted)>> \o InsertRow(Tail(sorted), row)

RECURSIVE OrderBySourcePath(_)
OrderBySourcePath(rows) ==
    IF rows = <<>> THEN <<>>
    ELSE InsertRow(OrderBySourcePath(Tail(rows)), Head(rows))

RECURSIVE WhereStatus(_, _)
WhereStatus(table, statuses) ==
    IF table = <<>> THEN <<>>
    ELSE IF Head(table).status \in statuses
    THEN <<Head(table)>> \o WhereStatus(Tail(table), statuses)
    ELSE WhereStatus(Tail(table), statuses)

\* A mutation of the status filter: UNSUPPORTED rows are listed with the
\* FAILED ones, as get_failed_files_with_errors lists them.
GetFilesByStatusOrUnsupported(table, status) ==
    OrderBySourcePath(WhereStatus(table, {status, UNSUPPORTED}))

\* A mutation of the status scan: the rows come in the order of insertion.
GetFilesByStatusUnordered(table, status) ==
    WhereStatus(table, {status})

\* SELECT * FROM migrated_files WHERE status = ? ORDER BY source_path
GetFilesByStatus(table, status) ==
    OrderBySourcePath(WhereStatus(table, {status}))

\* retry up to its loop; with no FAILED row it returns at once.
RetryStart ==
    /\ rPc \in {"idle", "done"}
    /\ runNo < MaxRuns
    /\ runNo' = runNo + 1
    /\ LET failed_files == GetFilesByStatus(ledger, FAILED)
       IN /\ rFailed' = failed_files
          /\ rPc' = IF failed_files = <<>> THEN "done" ELSE "loop"
          /\ rExit' = IF failed_files = <<>> THEN 0 ELSE None
    /\ \E d \in BOOLEAN : dryRun' = d
    /\ rI' = 1
    /\ rCount' = [success_count |-> 0, failed_count |-> 0]
    /\ readLog' = {} /\ infoLog' = {} /\ uploadLog' = {} /\ writeLog' = {}
    /\ ledgerAtStart' = ledger
    /\ UNCHANGED <<ledgerVars, pairVars, albumVars, avVars, amVars, exVars, bfVars, upVars, gaVars, verVars, srcFiles, cfgBatch, mPc,
                   mGroups, mIdx, mUpload, mCount, mBatch, mSleeps, mOutcome,
                   killedAt, videoFailed, unsupRun, imageFailed>>

\* The loop's exit: the counts are printed and the command returns.
RetryAdvance ==
    /\ rI' = rI + 1
    /\ rPc' = IF rI = Len(rFailed) THEN "done" ELSE "loop"
    /\ rExit' = IF rI = Len(rFailed) THEN 0 ELSE None

\* One iteration of the loop: the mtime fallback, the dry-run shortcut, the
\* read, the upload, and the SUCCESS row when the upload succeeded.
RetryFile ==
    /\ rPc = "loop"
    /\ LET file_info == rFailed[rI]
           source_path == file_info.source_path
           blank == file_info.source_mtime = ""
       IN \E info_ok \in BOOLEAN, read_ok \in BOOLEAN, result \in UploadResults :
            /\ infoLog' = IF blank THEN infoLog \cup {source_path} ELSE infoLog
            /\ IF blank /\ ~info_ok
               THEN /\ rCount' = [rCount EXCEPT !.failed_count = @ + 1]
                    /\ UNCHANGED <<readLog, uploadLog, writeLog, ledgerVars,
                                   unsupRun>>
               ELSE IF dryRun
               THEN /\ rCount' = [rCount EXCEPT !.success_count = @ + 1]
                    /\ UNCHANGED <<readLog, uploadLog, writeLog, ledgerVars,
                                   unsupRun>>
               ELSE /\ readLog' = readLog \cup {source_path}
                    /\ IF ~read_ok
                       THEN /\ rCount' = [rCount EXCEPT !.failed_count = @ + 1]
                            /\ UNCHANGED <<uploadLog, writeLog, ledgerVars,
                                           unsupRun>>
                       ELSE /\ uploadLog' = uploadLog \cup {source_path}
                            /\ NoteUnsupported(source_path, result)
                            /\ IF result.success
                               THEN /\ MigRecord(Row(source_path,
                                          file_info.source_hash,
                                          file_info.source_size,
                                          IF blank THEN "t2"
                                          ELSE file_info.source_mtime,
                                          result.asset_id, SUCCESS, None))
                                    /\ rCount' =
                                         [rCount EXCEPT !.success_count = @ + 1]
                               ELSE /\ rCount' =
                                         [rCount EXCEPT !.failed_count = @ + 1]
                                    /\ UNCHANGED <<writeLog, ledgerVars>>
    /\ RetryAdvance
    /\ UNCHANGED <<pairVars, albumVars, avVars, amVars, exVars, bfVars, upVars, gaVars, migVars, verVars, rFailed, ledgerAtStart, runNo,
                   killedAt, videoFailed, imageFailed>>

RetryPaths == {IMG_HEIC, IMG_MOV, B_JPG}

\* The rows a migration can have left for a path.
RetryRows(p) ==
    {NoRow,
     Row(p, None, 0, "", "asset1", SUCCESS, None),
     Row(p, None, 0, "", None, FAILED, "err"),
     Row(p, "h1", 1, "t1", None, FAILED, "err"),
     Row(p, None, 0, "", None, UNSUPPORTED, "unsupported")}

RetryInit ==
    /\ RestIdle
    /\ PairIdle /\ MigIdle /\ LogIdle /\ VerIdle
    /\ srcFiles = <<>>
    /\ \E a \in RetryRows(B_JPG), b \in RetryRows(IMG_MOV), c \in RetryRows(IMG_HEIC) :
          ledger = LET t1 == IF a = NoRow THEN <<>> ELSE RecordFile(<<>>, a)
                       t2 == IF b = NoRow THEN t1 ELSE RecordFile(t1, b)
                   IN IF c = NoRow THEN t2 ELSE RecordFile(t2, c)
    /\ lastCall = [p \in Paths |-> GetFile(ledger, p)]
    /\ prevStatus = [p \in Paths |-> None]
    /\ rPc = "idle"
    /\ rFailed = <<>>
    /\ rI = 0
    /\ rCount = [success_count |-> 0, failed_count |-> 0]
    /\ rExit = None

RetryNext ==
    \/ RetryStart
    \/ RetryFile

SpecRetry == RetryInit /\ [][RetryNext]_vars

StatusAtStart(p) ==
    IF GetFile(ledgerAtStart, p) = NoRow THEN None
    ELSE GetFile(ledgerAtStart, p).status

\* C9: retry attempts an upload only for paths whose status was FAILED when
\* the command started, never for UNSUPPORTED or SUCCESS ones; with no
\* FAILED row it exits with status 0, zero uploads and zero ledger writes.
RetryOnlyFailed ==
    rPc \in {"loop", "done"} =>
        /\ \A p \in uploadLog : StatusAtStart(p) = FAILED
        /\ \A p \in writeLog : StatusAtStart(p) = FAILED
        /\ (rPc = "done" /\ \A p \in Paths : StatusAtStart(p) # FAILED) =>
              /\ uploadLog = {} /\ writeLog = {} /\ readLog = {}
              /\ ledger = ledgerAtStart
              /\ rExit = 0

\* A second retry that found no FAILED row and returned at once, after a
\* first one had uploaded the FAILED path and left the UNSUPPORTED one alone.
RetryOnlyFailedWitness ==
    /\ runNo = 2 /\ rPc = "done" /\ rExit = 0
    /\ ledgerAtStart # <<>>
    /\ \A p \in Paths : StatusAtStart(p) # FAILED
    /\ uploadLog = {}
    /\ \E p, q \in RetryPaths :
          /\ prevStatus[p] = FAILED /\ lastCall[p].status = SUCCESS
          /\ StatusAtStart(q) = UNSUPPORTED

(***************************************************************************)
(* Kill and rerun, of the migrate run and of the verification run.         *)
(***************************************************************************)
ResumeInit == MigInit \/ VerInit

ResumeNext == MigNext \/ VerNext

SpecResume == ResumeInit /\ [][ResumeNext]_vars

\* A run that was started after the previous one had been killed.
Rerun == killedAt > 0 /\ mPc # "killed" /\ vPc # "killed"

\* C10 as stated: after a kill, every item whose ledger upsert or
\* progress-log line was completed before the kill is treated as done by the
\* rerun; only the item in flight at the kill is read or uploaded again.
RerunRedoesOnlyInFlight ==
    Rerun =>
        /\ \A i \in 1..Len(mGroups) :
              (/\ i # killedAt
               /\ \E p \in PathsOfGroup(mGroups[i]) : GetFile(ledgerAtStart, p) # NoRow)
                 => PathsOfGroup(mGroups[i]) \cap (readLog \cup uploadLog) = {}
        /\ \A p \in verified_paths(vLogAtStart) : p \notin vLooked \cup readLog

\* C10, amended: after a kill, every group whose image path was recorded
\* SUCCESS before the kill is skipped by the rerun (no read, no upload, its
\* rows unchanged), and every path with a line in the progress log is
\* skipped by the rerun and keeps its line; the groups the rerun processes
\* again are the one in flight and those not recorded SUCCESS.
RerunKeepsCompleted ==
    Rerun =>
        /\ \A i \in 1..Len(mGroups) :
              IsMigrated(ledgerAtStart, mGroups[i].image_path) =>
                 /\ PathsOfGroup(mGroups[i]) \cap Touched = {}
                 /\ \A p \in PathsOfGroup(mGroups[i]) :
                        GetFile(ledger, p) = GetFile(ledgerAtStart, p)
                 /\ i \in Finished => mOutcome[i] = "skipped"
        /\ \A p \in verified_paths(vLogAtStart) : p \notin vLooked \cup readLog
        /\ Len(vLog) >= Len(vLogAtStart)
        /\ SubSeq(vLog, 1, Len(vLogAtStart)) = vLogAtStart

\* A rerun after a kill at the second group: the first group, recorded
\* SUCCESS before the kill, was skipped, and the group in flight at the kill
\* was uploaded by the rerun.
RerunKeepsCompletedWitness ==
    /\ Rerun /\ killedAt = 2 /\ runNo = 2 /\ mPc = "done"
    /\ IsMigrated(ledgerAtStart, mGroups[1].image_path)
    /\ mOutcome[1] = "skipped"
    /\ mGroups[2].image_path \in uploadLog

\* ---------------------------------------------------------------------
\* AlbumVerifier and the verify-albums command

\* immich_by_name[name]: in the dict comprehension the last album of a
\* name replaces the earlier ones.
ImmichByName(immich_albums, name) ==
    LET at == {k \in 1..Len(immich_albums) : immich_albums[k].albumName = name}
    IN IF at = {} THEN NoImmichAlbum
       ELSE immich_albums[CHOOSE k \in at : \A j \in at : j <= k]

\* immich_by_id[id]
ImmichById(immich_albums, id) ==
    LET at == {k \in 1..Len(immich_albums) : immich_albums[k].id = id}
    IN IF at = {} THEN NoImmichAlbum
       ELSE immich_albums[CHOOSE k \in at : \A j \in at : j <= k]

MatchedPair(synology_album, immich_album) ==
    [s |-> synology_album, i |-> immich_album]

RECURSIVE _match_by_name(_, _)
_match_by_name(synology_albums, immich_albums) ==
    IF synology_albums = <<>> THEN <<>>
    ELSE LET immich_album == ImmichByName(immich_albums, Head(synology_albums).name)
             rest == _match_by_name(Tail(synology_albums), immich_albums)
         IN IF immich_album # NoImmichAlbum
            THEN <<MatchedPair(Head(synology_albums), immich_album)>> \o rest
            ELSE rest

\* progress_tracker.get_album_by_synology_id(id)
GetAlbumBySynologyId(table, id) == table[id]

RECURSIVE _match_by_migration_record(_, _, _)
_match_by_migration_record(synology_albums, immich_albums, table) ==
    IF synology_albums = <<>> THEN <<>>
    ELSE LET record == GetAlbumBySynologyId(table, Head(synology_albums).id)
             immich_album == IF record = NoAlbumRow THEN NoImmichAlbum
                             ELSE ImmichById(immich_albums, record.immich_album_id)
             rest == _match_by_migration_record(Tail(synology_albums),
                                                immich_albums, table)
         IN IF immich_album # NoImmichAlbum
            THEN <<MatchedPair(Head(synology_albums), immich_album)>> \o rest
            ELSE rest

\* (s.id, i["id"]) for s, i in the list
KeySet(pairs) == {<<pairs[k].s.id, pairs[k].i.id>> : k \in 1..Len(pairs)}

Tagged(pair, match_type) ==
    [s |-> pair.s, i |-> pair.i, match_type |-> match_type]

\* The first loop of _match_albums: the pairs matched by name, tagged.
RECURSIVE TagNameMatched(_, _)
TagNameMatched(name_matched, id_matched_set) ==
    IF name_matched = <<>> THEN <<>>
    ELSE LET pair == Head(name_matched)
             key == <<pair.s.id, pair.i.id>>
         IN <<Tagged(pair, IF key \in id_matched_set THEN "both" ELSE "name")>>
            \o TagNameMatched(Tail(name_matched), id_matched_set)

\* The second loop of _match_albums: the pairs matched by the migration
\* record whose source album has not been seen yet.
RECURSIVE AddIdMatched(_, _)
AddIdMatched(id_matched, seen_synology_ids) ==
    IF id_matched = <<>> THEN <<>>
    ELSE LET pair == Head(id_matched)
         IN IF pair.s.id \notin seen_synology_ids
            THEN <<Tagged(pair, "id")>>
                 \o AddIdMatched(Tail(id_matched), seen_synology_ids \cup {pair.s.id})
            ELSE AddIdMatched(Tail(id_matched), seen_synology_ids)

_match_albums(synology_albums, immich_albums, table) ==
    LET name_matched == _match_by_name(synology_albums, immich_albums)
        id_matched == _match_by_migration_record(synology_albums, immich_albums, table)
    IN TagNameMatched(name_matched, KeySet(id_matched))
       \o AddIdMatched(id_matched, {name_matched[k].s.id : k \in 1..Len(name_matched)})

\* synology_fetcher.get_album_files(album_id), for the albums checked.
AlbumFiles(album_id) == IF album_id = 1 THEN <<IMG_HEIC, IMG_MOV>> ELSE <<B_JPG>>

\* An asset of a destination album: its checksum and its livePhotoVideoId.
AlbumAsset(checksum, live_video_id) ==
    [checksum |-> checksum, livePhotoVideoId |-> live_video_id]

\* immich_checksums: the checksums of the members and of their companions.
ImmichChecksums(immich_album_id) ==
    {a.checksum : a \in {b \in immAssets[immich_album_id] : b.checksum # None}}
    \cup {videoAsset[a.livePhotoVideoId] :
            a \in {b \in immAssets[immich_album_id] :
                      /\ b.livePhotoVideoId # None
                      /\ videoAsset[b.livePhotoVideoId] # None}}

\* The position of the first member file whose read_file raises, 0 if none.
FirstRaise(files) ==
    LET at == {k \in 1..Len(files) : albHash[files[k]] = "raise"}
    IN IF at = {} THEN 0 ELSE CHOOSE k \in at : \A j \in at : k <= j

\* The member files handed to read_file by one comparison.
FilesRead(files) ==
    IF FirstRaise(files) = 0 THEN Range(files)
    ELSE {files[k] : k \in 1..FirstRaise(files)}

RECURSIVE MissingFiles(_, _)
MissingFiles(files, immich_checksums) ==
    IF files = <<>> THEN <<>>
    ELSE (IF albHash[Head(files)] \notin immich_checksums
          THEN <<Head(files)>> ELSE <<>>)
         \o MissingFiles(Tail(files), immich_checksums)

\* The values of --batch-size checked; the option takes any integer.
AlbumBatchSizes == {-1, 0, 1, 2}

\* The member files the two nested loops visit, in order: the slices
\* synology_files[i:i + batch_size] for i in range(0, len, batch_size). A
\* negative step gives an empty range; a zero step raises (see BatchRaises).
RECURSIVE Visited(_, _)
Visited(files, batch_size) ==
    IF batch_size <= 0 \/ files = <<>> THEN <<>>
    ELSE LET n == IF batch_size < Len(files) THEN batch_size ELSE Len(files)
         IN SubSeq(files, 1, n)
            \o Visited(SubSeq(files, n + 1, Len(files)), batch_size)

\* range(0, len(synology_files), 0) raises ValueError.
BatchRaises(batch_size) == batch_size = 0

\* _compare_album_contents_batch, when nothing raises.
_compare_album_contents_batch(synology_album, immich_album, batch_size) ==
    LET synology_files == Visited(AlbumFiles(synology_album.id), batch_size)
        immich_checksums == ImmichChecksums(immich_album.id)
        synology_checksums == {albHash[f] : f \in Range(synology_files)}
    IN [synology_album_name |-> synology_album.name,
        synology_album_id |-> synology_album.id,
        immich_album_id |-> immich_album.id,
        immich_album_name |-> immich_album.albumName,
        synology_file_count |-> Cardinality(synology_checksums),
        immich_asset_count |-> Cardinality(immich_checksums),
        missing_in_immich |-> MissingFiles(synology_files, immich_checksums),
        extra_in_immich |-> immich_checksums \ synology_checksums,
        hash_mismatches |-> <<>>,
        match_type |-> "unmatched"]

\* The line _save_progress appends for a result.
ProgressRecord(result) ==
    [synology_album_id |-> result.synology_album_id,
     immich_album_id |-> result.immich_album_id,
     missing_count |-> Len(result.missing_in_immich),
     extra_count |-> Cardinality(result.extra_in_immich),
     mismatch_count |-> Len(result.hash_mismatches),
     match_type |-> result.match_type]

\* A mutation of _load_progress: the progress file is not read.
LoadProgressNothing(log) == {}

\* _load_progress
_load_progress(log) == {log[k].synology_album_id : k \in 1..Len(log)}

RECURSIVE NamesNotIn(_, _)
NamesNotIn(synology_albums, ids) ==
    IF synology_albums = <<>> THEN <<>>
    ELSE (IF Head(synology_albums).id \notin ids
          THEN <<Head(synology_albums).name>> ELSE <<>>)
         \o NamesNotIn(Tail(synology_albums), ids)

RECURSIVE AlbumNamesNotIn(_, _)
AlbumNamesNotIn(immich_albums, ids) ==
    IF immich_albums = <<>> THEN <<>>
    ELSE (IF Head(immich_albums).id \notin ids
          THEN <<Head(immich_albums).albumName>> ELSE <<>>)
         \o AlbumNamesNotIn(Tail(immich_albums), ids)

\* A mutation of the report: matched_albums counts the albums compared in
\* this run.
ReportCountingResults(matched, album_results) ==
    LET synology_only ==
            NamesNotIn(synAlbums, {matched[k].s.id : k \in 1..Len(matched)})
        immich_only ==
            AlbumNamesNotIn(immAlbums, {matched[k].i.id : k \in 1..Len(matched)})
    IN [total_synology_albums |-> Len(synAlbums),
        total_immich_albums |-> Len(immAlbums),
        matched_albums |-> Len(album_results),
        unmatched_synology_albums |-> Len(synology_only),
        unmatched_immich_albums |-> Len(immich_only),
        album_results |-> album_results,
        synology_only |-> synology_only,
        immich_only |-> immich_only]

AlbumVerificationReport(matched, album_results) ==
    LET synology_only ==
            NamesNotIn(synAlbums, {matched[k].s.id : k \in 1..Len(matched)})
        immich_only ==
            AlbumNamesNotIn(immAlbums, {matched[k].i.id : k \in 1..Len(matched)})
    IN [total_synology_albums |-> Len(synAlbums),
        total_immich_albums |-> Len(immAlbums),
        matched_albums |-> Len(matched),
        unmatched_synology_albums |-> Len(synology_only),
        unmatched_immich_albums |-> Len(immich_only),
        album_results |-> album_results,
        synology_only |-> synology_only,
        immich_only |-> immich_only]

\* verify-albums up to the for loop: the progress file is loaded, the two
\* listings are fetched and matched.
AvStart ==
    /\ avPc \in {"idle", "done", "raised"}
    /\ avRun < MaxRuns
    /\ avRun' = avRun + 1
    /\ avVerified' = _load_progress(avLog)
    /\ avMatched' = _match_albums(synAlbums, immAlbums, albumTable)
    /\ avI' = 1
    /\ avResults' = <<>>
    /\ avReport' = NoReport
    /\ avReads' = {}
    /\ avExit' = None
    /\ avPc' = "loop"
    /\ UNCHANGED <<ledgerVars, pairVars, migVars, logVars, verVars, retryVars,
                   albumVars, albHash, immAssets, videoAsset, avLog, avBatch,
                   amVars, exVars, bfVars, upVars, gaVars>>

\* One iteration of the for loop of AlbumVerifier.verify. A read_file or a
\* range that raises inside the comparison leaves verify and the command.
AvAlbum ==
    /\ avPc = "loop"
    /\ avI <= Len(avMatched)
    /\ LET m == avMatched[avI]
           files == Visited(AlbumFiles(m.s.id), avBatch)
           result == [_compare_album_contents_batch(m.s, m.i, avBatch)
                        EXCEPT !.match_type = m.match_type]
       IN IF m.s.id \in avVerified
          THEN /\ avI' = avI + 1
               /\ UNCHANGED <<avPc, avResults, avLog, avReads, avExit>>
          ELSE IF BatchRaises(avBatch) \/ FirstRaise(files) # 0
          THEN /\ avPc' = "raised"
               /\ avExit' = 1
               /\ avReads' = avReads \cup FilesRead(files)
               /\ UNCHANGED <<avI, avResults, avLog>>
          ELSE /\ avResults' = Append(avResults, result)
               /\ avLog' = Append(avLog, ProgressRecord(result))
               /\ avReads' = avReads \cup FilesRead(files)
               /\ avI' = avI + 1
               /\ UNCHANGED <<avPc, avExit>>
    /\ UNCHANGED <<ledgerVars, pairVars, migVars, logVars, verVars, retryVars,
                   albumVars, albHash, immAssets, videoAsset, avMatched,
                   avVerified, avReport, avRun, avBatch, amVars, exVars, bfVars, upVars, gaVars>>

\* A mutation of the end of the run: every matched pair is recorded in
\* migrated_albums.
AvFinishRecording ==
    /\ avPc = "loop"
    /\ avI > Len(avMatched)
    /\ avReport' = AlbumVerificationReport(avMatched, avResults)
    /\ avExit' = 0
    /\ avPc' = "done"
    /\ albumTable' = [s \in SynIds |->
          IF \E k \in 1..Len(avMatched) : avMatched[k].s.id = s
          THEN LET k == CHOOSE j \in 1..Len(avMatched) : avMatched[j].s.id = s
               IN [synology_album_id |-> s,
                   synology_album_name |-> avMatched[k].s.name,
                   immich_album_id |-> avMatched[k].i.id]
          ELSE albumTable[s]]
    /\ UNCHANGED <<ledgerVars, pairVars, migVars, logVars, verVars, retryVars,
                   synAlbums, immAlbums, albHash, immAssets, videoAsset,
                   avMatched, avI, avVerified, avResults, avLog, avReads,
                   avRun, avBatch, amVars, exVars, bfVars, upVars, gaVars>>

\* After the loop: the report is written, the summary printed, and the
\* command returns.
AvFinish ==
    /\ avPc = "loop"
    /\ avI > Len(avMatched)
    /\ avReport' = AlbumVerificationReport(avMatched, avResults)
    /\ avExit' = 0
    /\ avPc' = "done"
    /\ UNCHANGED <<ledgerVars, pairVars, migVars, logVars, verVars, retryVars,
                   albumVars, albHash, immAssets, videoAsset, avMatched, avI,
                   avVerified, avResults, avLog, avReads, avRun, avBatch, amVars,
                   exVars, bfVars, upVars, gaVars>>

\* The album listings, tables and contents of the runs checked.
SynListings ==
    {<<SynologyAlbum(1, "A"), SynologyAlbum(2, "B")>>,
     <<SynologyAlbum(1, "A"), SynologyAlbum(2, "A")>>,
     <<SynologyAlbum(2, "B")>>}

ImmListings ==
    {<<ImmichAlbum("x", "A"), ImmichAlbum("y", "B")>>,
     <<ImmichAlbum("x", "A"), ImmichAlbum("y", "A")>>,
     <<ImmichAlbum("y", "B")>>,
     <<>>}

AlbumRow(id, name, immich_album_id) ==
    [synology_album_id |-> id, synology_album_name |-> name,
     immich_album_id |-> immich_album_id]

AlbumTables ==
    {t \in [SynIds -> {NoAlbumRow} \cup
                      {AlbumRow(s, "A", i) : s \in SynIds, i \in ImmIds}] :
        \A s \in SynIds : t[s] # NoAlbumRow => t[s].synology_album_id = s}

AlbumAssetSets ==
    {{},
     {AlbumAsset("c1", None)},
     {AlbumAsset("c1", None), AlbumAsset(None, "v1")}}

AvInit ==
    /\ LedgerIdle /\ PairIdle /\ MigIdle /\ LogIdle /\ VerIdle /\ RetryIdle
    /\ AmIdle /\ ExIdle /\ ClientIdle
    /\ srcFiles = <<>>
    /\ synAlbums \in SynListings
    /\ immAlbums \in ImmListings
    /\ albumTable \in AlbumTables
    /\ albHash \in {h \in [AlbumFileIds -> {"c1", "c3", "raise"}] :
                       h[IMG_HEIC] # "c3" /\ h[IMG_MOV] # "raise"}
    /\ immAssets \in [ImmIds -> AlbumAssetSets]
    /\ videoAsset \in [CompanionIds -> {None, "c3"}]
    /\ avPc = "idle"
    /\ avMatched = <<>>
    /\ avI = 0
    /\ avVerified = {}
    /\ avResults = <<>>
    /\ avLog = <<>>
    /\ avReport = NoReport
    /\ avReads = {}
    /\ avRun = 0
    /\ avBatch = 100
    /\ avExit = None

AvNext ==
    \/ AvStart
    \/ AvAlbum
    \/ AvFinish

SpecAlbumVerify == AvInit /\ [][AvNext]_vars

\* The matched albums this invocation had to compare.
AvToCompare == {k \in 1..Len(avMatched) : avMatched[k].s.id \notin avVerified}

\* C11: in the migrate run, the file-level verification run and the
\* album-level verification run, a failure on one item never aborts the
\* run: every remaining item is still processed and the aggregate result
\* is reported at the end. Stated for the album-level run: once the command
\* has ended, every matched album that was not already verified has a
\* result and the report has been written.
ItemFailureNeverAborts ==
    avPc \in {"done", "raised"} =>
        /\ avReport # NoReport
        /\ Len(avResults) = Cardinality(AvToCompare)

\* C12: a run of a verify-type command that finds at least one MISSING or
\* MISMATCH item exits with a failure status code, after the complete
\* report has been produced. Stated for verify-albums: when the command
\* has written its report and some album result lists a missing or
\* mismatching file, the exit status is not 0.
VerifyAlbumsFailureExitsNonZero ==
    (/\ avPc = "done"
     /\ \E k \in 1..Len(avReport.album_results) :
           \/ avReport.album_results[k].missing_in_immich # <<>>
           \/ avReport.album_results[k].hash_mismatches # <<>>)
        => avExit # 0

\* ---------------------------------------------------------------------
\* The two verification commands side by side

VerifyAnyInit == VerInit \/ AvInit

VerifyAnyNext == VerNext \/ AvNext

SpecVerifyAny == VerifyAnyInit /\ [][VerifyAnyNext]_vars

\* s is a prefix of t: t is s with lines appended.
IsPrefix(s, t) == Len(s) <= Len(t) /\ SubSeq(t, 1, Len(s)) = s

\* C13: file-level and album-level verification never mutate the ledger or
\* the source: every step of either run leaves the file rows, the album
\* rows, the source listing and the source contents as they were, and
\* changes the two progress logs only by appending lines.
VerificationLeavesLedgerAndSource ==
    [][/\ ledger' = ledger
       /\ albumTable' = albumTable
       /\ srcFiles' = srcFiles
       /\ localHash' = localHash
       /\ synAlbums' = synAlbums
       /\ albHash' = albHash
       /\ IsPrefix(vLog, vLog')
       /\ IsPrefix(avLog, avLog')]_vars

\* An album verification run that compared an album and wrote its report
\* while the album table held a row.
VerificationLeavesLedgerWitness ==
    /\ avPc = "done"
    /\ avLog # <<>>
    /\ avReport # NoReport
    /\ \E s \in SynIds : albumTable[s] # NoAlbumRow

\* ---------------------------------------------------------------------
\* Claims about the file-level verification result

\* C14: a source path that has no ledger record at all is reported in
\* not_in_db and in neither missing_in_immich nor hash_mismatches, and does
\* not affect validity: is_valid is true iff missing_in_immich and
\* hash_mismatches are both empty.
NotInDbIsReportedApart ==
    vPc = "done" =>
        /\ \A p \in Range(srcFiles) :
              GetFile(ledger, p) = NoRow =>
                 /\ p \in Range(vResult.not_in_db)
                 /\ p \notin Range(vResult.missing_in_immich)
                 /\ p \notin Range(vResult.hash_mismatches)
        /\ is_valid(vResult) <=>
              (vResult.missing_in_immich = <<>> /\ vResult.hash_mismatches = <<>>)

\* A finished run whose only findings are files without a ledger record:
\* the result lists them in not_in_db and is valid.
NotInDbIsReportedApartWitness ==
    /\ vPc = "done"
    /\ \E p \in Range(srcFiles) : GetFile(ledger, p) = NoRow
    /\ vResult.not_in_db # <<>>
    /\ vResult.missing_in_immich = <<>>
    /\ vResult.hash_mismatches = <<>>
    /\ is_valid(vResult)

\* ---------------------------------------------------------------------
\* Claims about album matching

\* The pairs found by exact album-name equality.
NameCandidates ==
    KeySet(_match_by_name(synAlbums, immAlbums))

\* The pairs found by the ledger's source-id to destination-id mapping.
IdCandidates ==
    KeySet(_match_by_migration_record(synAlbums, immAlbums, albumTable))

\* The tag the claim gives a candidate pair.
ExpectedTag(key) ==
    IF key \in NameCandidates /\ key \in IdCandidates THEN "both"
    ELSE IF key \in NameCandidates THEN "name" ELSE "id"

\* C15: album matching returns the union of the two independently computed
\* candidate sets: every pair found by name equality or by the ledger's
\* mapping appears in the result, tagged "both" if both strategies found
\* that pair, otherwise "name" or "id".
MatchIsTaggedUnion ==
    avPc \in {"loop", "done", "raised"} =>
        {<<avMatched[k].s.id, avMatched[k].i.id, avMatched[k].match_type>> :
            k \in 1..Len(avMatched)}
        = {<<key[1], key[2], ExpectedTag(key)>> :
            key \in NameCandidates \cup IdCandidates}

\* ---------------------------------------------------------------------
\* AlbumMigrator and the albums command

\* record_album(...): the upsert by synology_album_id.
record_album(table, synology_album_id, synology_album_name, immich_album_id) ==
    [table EXCEPT ![synology_album_id] =
        AlbumRow(synology_album_id, synology_album_name, immich_album_id)]

\* A mutation of _find_immich_asset_ids: the status of the record is not
\* looked at.
RECURSIVE FindAssetIdsOfAnyRecord(_, _)
FindAssetIdsOfAnyRecord(table, file_paths) ==
    IF file_paths = <<>> THEN <<>>
    ELSE LET file_info == GetFile(table, Head(file_paths))
             rest == FindAssetIdsOfAnyRecord(table, Tail(file_paths))
         IN IF file_info = NoRow THEN rest
            ELSE <<file_info.immich_asset_id>> \o rest

\* _find_immich_asset_ids: the asset ids of the member paths that have a
\* record with status "success" and an asset id.
RECURSIVE _find_immich_asset_ids(_, _)
_find_immich_asset_ids(table, file_paths) ==
    IF file_paths = <<>> THEN <<>>
    ELSE LET file_info == GetFile(table, Head(file_paths))
             rest == _find_immich_asset_ids(table, Tail(file_paths))
         IN IF file_info = NoRow THEN rest
            ELSE IF file_info.status # SUCCESS THEN rest
            ELSE IF file_info.immich_asset_id = None THEN rest
            ELSE <<file_info.immich_asset_id>> \o rest

\* A mutation of the loop head: no album counts as already migrated.
AlreadyMigratedNever(table, album) == FALSE

\* existing_album is not None
AlreadyMigrated(table, album) ==
    GetAlbumBySynologyId(table, album.id) # NoAlbumRow

\* A mutation of the end of _migrate_single_album: the album is recorded
\* whatever create_album returned.
TableAfterCreateAlways(table, album, immich_album_id) ==
    record_album(table, album.id, album.name, immich_album_id)

\* A mutation of the end of _migrate_single_album: the album is never
\* recorded.
TableAfterCreateNever(table, album, immich_album_id) == table

\* The album table after _migrate_single_album, given what create_album
\* returned: nothing is recorded when it returned None.
TableAfterCreate(table, album, immich_album_id) ==
    IF immich_album_id = None THEN table
    ELSE record_album(table, album.id, album.name, immich_album_id)

\* The ids the server gives the albums it creates, in order of creation.
NewAlbumIds == <<"n1", "n2", "n3", "n4", "n5", "n6", "n7", "n8">>

Created == {k \in 1..Len(amCalls) : amCalls[k].result # None}

AmCounted(outcome) ==
    [success_count |-> amCount.success_count + (IF outcome = "success" THEN 1 ELSE 0),
     failed_count |-> amCount.failed_count + (IF outcome = "failed" THEN 1 ELSE 0),
     skipped_count |-> amCount.skipped_count + (IF outcome = "skipped" THEN 1 ELSE 0)]

\* AlbumMigrator.migrate_albums up to its loop.
AmStart ==
    /\ amPc \in {"idle", "done"}
    /\ amRun < MaxRuns
    /\ amRun' = amRun + 1
    /\ \E d \in BOOLEAN : amDryRun' = d
    /\ amI' = 1
    /\ amCount' = [success_count |-> 0, failed_count |-> 0, skipped_count |-> 0]
    /\ amOutcome' = <<>>
    /\ amTableAtStart' = albumTable
    /\ amPc' = IF synAlbums = <<>> THEN "done" ELSE "loop"
    /\ UNCHANGED <<ledgerVars, pairVars, migVars, logVars, verVars, retryVars,
                   albumVars, avVars, amCalls, amAdds, exVars, bfVars, upVars, gaVars>>

\* One iteration of the loop of migrate_albums, _migrate_single_album
\* included.
AmAlbum ==
    /\ amPc = "loop"
    /\ LET album == synAlbums[amI]
           asset_ids == _find_immich_asset_ids(ledger, AlbumFiles(album.id))
           finish(outcome) ==
               /\ amCount' = AmCounted(outcome)
               /\ amOutcome' = Append(amOutcome, outcome)
               /\ amI' = amI + 1
               /\ amPc' = IF amI = Len(synAlbums) THEN "done" ELSE "loop"
       IN IF AlreadyMigrated(albumTable, album)
          THEN /\ finish("skipped")
               /\ UNCHANGED <<albumTable, amCalls, amAdds>>
          ELSE IF amDryRun
          THEN /\ finish("success")
               /\ UNCHANGED <<albumTable, amCalls, amAdds>>
          ELSE \E immich_album_id \in {None, NewAlbumIds[Cardinality(Created) + 1]} :
                 /\ amCalls' = Append(amCalls,
                       [run |-> amRun, synology_album_id |-> album.id,
                        album_name |-> album.name, result |-> immich_album_id,
                        existing |-> GetAlbumBySynologyId(albumTable, album.id)])
                 /\ albumTable' = TableAfterCreate(albumTable, album, immich_album_id)
                 /\ IF immich_album_id = None
                    THEN /\ finish("failed")
                         /\ UNCHANGED amAdds
                    ELSE /\ finish("success")
                         /\ IF asset_ids # <<>>
                            THEN \E success \in BOOLEAN :
                                   amAdds' = Append(amAdds,
                                      [album_id |-> immich_album_id,
                                       asset_ids |-> asset_ids,
                                       success |-> success])
                            ELSE UNCHANGED amAdds
    /\ UNCHANGED <<ledgerVars, pairVars, migVars, logVars, verVars, retryVars,
                   synAlbums, immAlbums, avVars, amDryRun, amTableAtStart,
                   amRun, exVars, bfVars, upVars, gaVars>>

\* The file rows a migration can have left for a member path.
MemberRows(p) ==
    {NoRow,
     Row(p, None, 0, "", VerAssetOf(p), SUCCESS, None),
     Row(p, None, 0, "", None, SUCCESS, None),
     Row(p, None, 0, "", None, FAILED, "err"),
     Row(p, None, 0, "", None, UNSUPPORTED, "unsupported")}

AmInit ==
    /\ PairIdle /\ MigIdle /\ LogIdle /\ VerIdle /\ RetryIdle
    /\ AvIdle /\ ExIdle /\ ClientIdle
    /\ srcFiles = <<>>
    /\ \E a \in MemberRows(B_JPG), b \in MemberRows(IMG_MOV), c \in MemberRows(IMG_HEIC) :
          ledger = LET t1 == IF a = NoRow THEN <<>> ELSE RecordFile(<<>>, a)
                       t2 == IF b = NoRow THEN t1 ELSE RecordFile(t1, b)
                   IN IF c = NoRow THEN t2 ELSE RecordFile(t2, c)
    /\ lastCall = [p \in Paths |-> GetFile(ledger, p)]
    /\ prevStatus = [p \in Paths |-> None]
    /\ synAlbums \in SynListings
    /\ immAlbums = <<>>
    /\ albumTable \in {[s \in SynIds |-> NoAlbumRow],
                       [s \in SynIds |-> IF s = 1 THEN AlbumRow(1, "A", "x")
                                         ELSE NoAlbumRow]}
    /\ amPc = "idle"
    /\ amDryRun = FALSE
    /\ amI = 0
    /\ amCount = [success_count |-> 0, failed_count |-> 0, skipped_count |-> 0]
    /\ amCalls = <<>>
    /\ amAdds = <<>>
    /\ amTableAtStart = albumTable
    /\ amOutcome = <<>>
    /\ amRun = 0

AmNext ==
    \/ AmStart
    \/ AmAlbum

SpecAlbums == AmInit /\ [][AmNext]_vars

\* The create_album calls of invocation r for source album id.
CallsOf(r, id) ==
    {k \in 1..Len(amCalls) :
        amCalls[k].run = r /\ amCalls[k].synology_album_id = id}

MigratedAlbumIsNotCreatedAgain ==
    /\ \A k \in 1..Len(amCalls) : amCalls[k].existing = NoAlbumRow
    /\ \A i \in 1..Len(amOutcome) :
          amTableAtStart[synAlbums[i].id] # NoAlbumRow
             => /\ amOutcome[i] = "skipped"
                /\ albumTable[synAlbums[i].id] = amTableAtStart[synAlbums[i].id]
    /\ \A s \in SynIds :
          Cardinality({k \in Created : amCalls[k].synology_album_id = s}) <= 1

\* A second run that skipped an album the first run had created and
\* recorded.
MigratedAlbumIsNotCreatedAgainWitness ==
    /\ amRun = 2
    /\ amPc = "done"
    /\ \E i \in 1..Len(amOutcome) :
          /\ amOutcome[i] = "skipped"
          /\ \E k \in Created :
                /\ amCalls[k].run = 1
                /\ amCalls[k].synology_album_id = synAlbums[i].id
                /\ albumTable[synAlbums[i].id].immich_album_id = amCalls[k].result

\* ---------------------------------------------------------------------
\* Claims about the status scan of the ledger

\* C18: get_files_by_status(status) returns exactly the ledger records
\* whose current status equals the given status, each once, sorted by
\* source_path ascending; being a function of the table alone, two calls
\* with no intervening mutation return the same list.
StatusScanIsSortedFilter ==
    \A st \in FileStatus :
        LET r == GetFilesByStatus(ledger, st)
            rows == {ledger[i] : i \in {j \in 1..Len(ledger) : ledger[j].status = st}}
        IN /\ Range(r) = rows
           /\ Len(r) = Cardinality(rows)
           /\ \A i \in 1..(Len(r) - 1) :
                 PathLess(r[i].source_path, r[i + 1].source_path)

\* Two FAILED rows inserted in descending path order, listed ascending.
StatusScanIsSortedFilterWitness ==
    /\ Len(ledger) = 2
    /\ PathLess(ledger[2].source_path, ledger[1].source_path)
    /\ ledger[1].status = FAILED /\ ledger[2].status = FAILED
    /\ Len(GetFilesByStatus(ledger, FAILED)) = 2
    /\ GetFilesByStatus(ledger, FAILED)[1] = ledger[2]

\* ---------------------------------------------------------------------
\* Claims about pairing

\* The kinds of file the claim speaks of, by the extensions of the universe.
IsImageFile(f) == f.ext \in {".HEIC", ".jpg"}
IsMovFile(f) == f.ext = ".MOV"

\* Same directory and same stem compared case-insensitively.
SameDirAndStem(f, g) ==
    /\ f.dir = g.dir
    /\ \/ f.name = g.name
       \/ {f.name, g.name} = {"IMG", "img"}

LiveGroups == {k \in 1..Len(pairOut) : is_live_photo(pairOut[k])}

\* C19: pair_files emits a group with is_live_photo true exactly when an
\* image-extension file and a .mov file share the same directory and the
\* same stem compared case-insensitively: every live group is such an image
\* with such a video, and every directory and stem that has both gets
\* exactly one live group. A file that no file of the other kind shares
\* directory and stem with is emitted in a singleton group, and for an
\* unpaired .mov the singleton carries the video as image_path.
PairsExactlySameDirAndStem ==
    pairPc = "done" =>
        /\ \A k \in LiveGroups :
              /\ pairOut[k].image_path \in Range(pairIn)
              /\ pairOut[k].video_path \in Range(pairIn)
              /\ IsImageFile(pairOut[k].image_path)
              /\ IsMovFile(pairOut[k].video_path)
              /\ SameDirAndStem(pairOut[k].image_path, pairOut[k].video_path)
        /\ \A f \in Range(pairIn), v \in Range(pairIn) :
              (IsImageFile(f) /\ IsMovFile(v) /\ SameDirAndStem(f, v))
                 => Cardinality({k \in LiveGroups :
                        SameDirAndStem(pairOut[k].image_path, f)}) = 1
        /\ \A f \in Range(pairIn) :
              (/\ IsImageFile(f) \/ IsMovFile(f)
               /\ ~\E g \in Range(pairIn) :
                      /\ SameDirAndStem(f, g)
                      /\ (IsImageFile(f) /\ IsMovFile(g)) \/ (IsMovFile(f) /\ IsImageFile(g)))
                 => /\ \A k \in LiveGroups :
                          f \notin {pairOut[k].image_path, pairOut[k].video_path}
                    /\ \E k \in 1..Len(pairOut) :
                          /\ ~is_live_photo(pairOut[k])
                          /\ SameDirAndStem(pairOut[k].image_path, f)
                          /\ IsImageFile(pairOut[k].image_path) = IsImageFile(f)
                          /\ IsMovFile(pairOut[k].image_path) = IsMovFile(f)

\* /a/IMG.HEIC paired with /a/img.MOV across the difference in case, next
\* to an unpaired .mov of another stem emitted as a singleton.
PairsExactlySameDirAndStemWitness ==
    /\ pairPc = "done"
    /\ \E k \in LiveGroups :
          /\ pairOut[k].image_path = IMG_HEIC
          /\ pairOut[k].video_path = IMG_MOV
    /\ \E k \in 1..Len(pairOut) :
          /\ pairOut[k] = LivePhotoGroup(P("/a", "PIC", ".MOV"), NoFile)

\* ---------------------------------------------------------------------
\* The exclusion filter of the two readers

\* LocalFileReader.EXCLUDED_DIRS and EXCLUDED_FILES
EXCLUDED_DIRS == {"@eaDir", ".thumbnail", "#recycle"}
EXCLUDED_FILES == {".DS_Store", "Thumbs.db"}

\* SmbFileReader.EXCLUDED_DIRS and EXCLUDED_FILES
SMB_EXCLUDED_DIRS == {"@eaDir", ".thumbnail", "#recycle"}
SMB_EXCLUDED_FILES == {".DS_Store", "Thumbs.db"}

\* LocalFileReader.should_exclude, on Path(path).parts
LocalShouldExclude(parts) ==
    \/ \E k \in 1..Len(parts) : parts[k] \in EXCLUDED_DIRS
    \/ parts # <<>> /\ parts[Len(parts)] \in EXCLUDED_FILES

\* SmbFileReader.should_exclude, on path.split("\\")
SmbShouldExclude(parts) ==
    \/ \E k \in 1..Len(parts) : parts[k] \in SMB_EXCLUDED_DIRS
    \/ parts # <<>> /\ parts[Len(parts)] \in SMB_EXCLUDED_FILES

\* LocalFileReader.list_files: rglob("*") reaches every file, and the
\* filter is applied to the files only.
LocalListed(file) == ~LocalShouldExclude(file)

\* SmbFileReader._scan_directory: the filter is applied to every entry,
\* so a file is reached only through directories that passed it.
SmbListed(file) ==
    \A n \in 1..Len(file) : ~SmbShouldExclude(SubSeq(file, 1, n))

MaxSegments == 3

\* The names a path segment is drawn from.
Segments == {"@eaDir", ".thumbnail", "#recycle", ".DS_Store", "Thumbs.db",
             "2024", "photo.jpg"}

RECURSIVE SegmentPaths(_)
SegmentPaths(n) ==
    IF n = 0 THEN {<<>>}
    ELSE {Append(q[1], q[2]) : q \in SegmentPaths(n - 1) \X Segments}

\* Both readers enumerate a tree that holds the file exPath.
ExEnumerate ==
    /\ exPc = "idle"
    /\ exLocal' = [should_exclude |-> LocalShouldExclude(exPath),
                   listed |-> LocalListed(exPath)]
    /\ exSmb' = [should_exclude |-> SmbShouldExclude(exPath),
                 listed |-> SmbListed(exPath)]
    /\ exPc' = "done"
    /\ UNCHANGED <<ledgerVars, pairVars, migVars, logVars, verVars, retryVars,
                   albumVars, avVars, amVars, exPath, bfVars, upVars, gaVars>>

ExInit ==
    /\ LedgerIdle /\ PairIdle /\ MigIdle /\ LogIdle /\ VerIdle /\ RetryIdle
    /\ AlbumIdle /\ AvIdle /\ AmIdle /\ ClientIdle
    /\ srcFiles = <<>>
    /\ \E n \in 1..MaxSegments : exPath \in SegmentPaths(n)
    /\ exLocal = [should_exclude |-> FALSE, listed |-> FALSE]
    /\ exSmb = [should_exclude |-> FALSE, listed |-> FALSE]
    /\ exPc = "idle"

ExNext == ExEnumerate

SpecExclude == ExInit /\ [][ExNext]_vars

\* The rule of the claim: some segment is an excluded directory name, or
\* the final segment is an excluded file name.
ExclusionRule(path) ==
    \/ \E k \in 1..Len(path) : path[k] \in {"@eaDir", ".thumbnail", "#recycle"}
    \/ path[Len(path)] \in {".DS_Store", "Thumbs.db"}

\* C20: in both transport variants a path is excluded from enumeration iff
\* some path segment is one of @eaDir, .thumbnail, #recycle or its final
\* segment is exactly .DS_Store or Thumbs.db, and the two variants give the
\* same verdict for the same sequence of path segments.
ExclusionIsSharedRule ==
    exPc = "done" =>
        /\ ~exLocal.listed <=> ExclusionRule(exPath)
        /\ ~exSmb.listed <=> ExclusionRule(exPath)
        /\ exLocal.listed = exSmb.listed
        /\ exLocal.should_exclude = exSmb.should_exclude

\* ---------------------------------------------------------------------
\* Unsupported formats

StatusOf(table, path) ==
    IF GetFile(table, path) = NoRow THEN None ELSE GetFile(table, path).status

\* C21: whenever the destination reports an unsupported format for a path's
\* upload (in the migrate run, for an image or a Live Photo video, or in the
\* retry flow), the path's ledger row is UNSUPPORTED once the invocation is
\* done with the path, and no later retry run uploads the path.
UnsupportedIsFinal ==
    \A p \in Paths :
        (unsupRun[p] > 0 /\ mPc \in {"off", "check", "done"}) =>
            /\ unsupRun[p] = runNo => StatusOf(ledger, p) = UNSUPPORTED
            /\ (rPc \in {"loop", "done"} /\ runNo > unsupRun[p])
                  => p \notin uploadLog

\* ---------------------------------------------------------------------
\* The outcomes of _process_group

\* C22: if reading the image bytes of a group that is not yet migrated
\* fails, the group is counted as failed, the image path's row is FAILED
\* with an error message, and neither the image nor the video is uploaded.
ImageReadFailureIsFailed ==
    \A i \in Finished :
        i \in imageFailed =>
            /\ mOutcome[i] = "failed"
            /\ StatusOf(ledger, mGroups[i].image_path) = FAILED
            /\ GetFile(ledger, mGroups[i].image_path).error_message # None
            /\ PathsOfGroup(mGroups[i]) \cap uploadLog = {}

\* A finished run in which the image of a Live Photo pair could not be
\* read while another group was uploaded.
ImageReadFailureIsFailedWitness ==
    /\ mPc = "done"
    /\ uploadLog # {}
    /\ \E i \in Finished :
          /\ i \in imageFailed
          /\ is_live_photo(mGroups[i])
          /\ ~IsMigrated(ledgerAtStart, mGroups[i].image_path)
          /\ mCount.failed_count >= 1

\* The counters of run that one processed group may increment.
OutcomeCounters == {"success_count", "failed_count", "unsupported_count"}

\* Of the three counters, exactly the named one went up, by one.
OnlyIncremented(counter) ==
    \A c \in OutcomeCounters :
        mCount'[c] = IF c = counter THEN mCount[c] + 1 ELSE mCount[c]

\* C23: when the Migrator finishes a single-file group whose image was read
\* and uploaded, outside dry-run, the image path's row and the counted
\* outcome are those of the upload result: SUCCESS with the asset id,
\* UNSUPPORTED for is_unsupported, FAILED with the error text otherwise; and
\* exactly one of the three counters goes up.
SingleFileOutcomeFollowsUpload ==
    [][(mPc = "record" /\ mPc' # "killed" /\ ~is_live_photo(Group)) =>
         LET row == GetFile(ledger', Group.image_path)
         IN /\ row # NoRow
            /\ Len(mOutcome') = mIdx
            /\ mUpload.success =>
                  /\ row.status = SUCCESS
                  /\ row.immich_asset_id = mUpload.asset_id
                  /\ mOutcome'[mIdx] = "success"
                  /\ OnlyIncremented("success_count")
            /\ (~mUpload.success /\ mUpload.is_unsupported) =>
                  /\ row.status = UNSUPPORTED
                  /\ mOutcome'[mIdx] = "unsupported"
                  /\ OnlyIncremented("unsupported_count")
            /\ (~mUpload.success /\ ~mUpload.is_unsupported) =>
                  /\ row.status = FAILED
                  /\ row.error_message = mUpload.error_message
                  /\ mOutcome'[mIdx] = "failed"
                  /\ OnlyIncremented("failed_count")]_vars

\* A finished run that counted a single-file group as unsupported and whose
\* row says so.
SingleFileOutcomeFollowsUploadWitness ==
    /\ mPc = "done" /\ ~dryRun
    /\ \E i \in Finished :
          /\ ~is_live_photo(mGroups[i])
          /\ mGroups[i].image_path \in readLog \cap uploadLog
          /\ mOutcome[i] = "unsupported"
          /\ StatusOf(ledger, mGroups[i].image_path) = UNSUPPORTED
          /\ mCount.unsupported_count = 1

\* ---------------------------------------------------------------------
\* The batch wait of Migrator.run

\* A source tree of three groups: a Live Photo pair and two single files.
BatchTrees == {<<IMG_HEIC, IMG_MOV, B_JPG, B_MP4>>}

\* batch_size and a positive batch_delay.
BatchWaits == {[batch_size |-> 2, batch_delay |-> 1],
               [batch_size |-> 1, batch_delay |-> 1]}

\* The ledger an earlier invocation left: empty, or with one of the single
\* files migrated.
BatchLedgers ==
    {<<>>, RecordFile(<<>>, Row(B_JPG, None, 0, "", "asset1", SUCCESS, None))}

BatchInit ==
    /\ RestIdle
    /\ PairIdle /\ VerIdle /\ RetryIdle
    /\ srcFiles \in BatchTrees
    /\ ledger \in BatchLedgers
    /\ lastCall = [p \in Paths |-> GetFile(ledger, p)]
    /\ prevStatus = [p \in Paths |-> None]
    /\ dryRun = FALSE
    /\ cfgBatch \in BatchWaits
    /\ mPc = "idle"
    /\ mGroups = <<>>
    /\ mIdx = 0
    /\ mUpload = NoUpload
    /\ mCount = ZeroCount
    /\ mBatch = 0
    /\ mSleeps = <<>>
    /\ mOutcome = <<>>
    /\ readLog = {} /\ infoLog = {} /\ uploadLog = {} /\ writeLog = {}
    /\ ledgerAtStart = <<>>
    /\ runNo = 1
    /\ killedAt = 0
    /\ videoFailed = {}
    /\ imageFailed = {}
    /\ unsupRun = [p \in Paths |-> 0]

SpecBatch == BatchInit /\ [][MigNext]_vars

\* The groups up to position i that run handed to _process_group.
ProcessedUpTo(i) == Cardinality({j \in 1..i : mOutcome[j] # "skipped"})

\* C24: with batch size N and a positive batch delay, run sleeps after a
\* group iff that group is the N-th, 2N-th, ... group it processed (skipped
\* groups are not processed), so it never sleeps after fewer than N groups
\* since the previous sleep, and k processed groups give k div N sleeps.
BatchSleepsEveryN ==
    (mPc # "off" /\ cfgBatch.batch_delay > 0) =>
        /\ Len(mSleeps) = Len(mOutcome)
        /\ \A i \in Finished :
              mSleeps[i] <=> /\ mOutcome[i] # "skipped"
                             /\ ProcessedUpTo(i) % cfgBatch.batch_size = 0
        /\ Cardinality({i \in Finished : mSleeps[i]})
              = ProcessedUpTo(Len(mOutcome)) \div cfgBatch.batch_size

\* A finished run with batch size 2 over three groups, none skipped: it
\* slept after the second group and not after the first or the third.
BatchSleepsEveryNWitness ==
    /\ mPc = "done"
    /\ cfgBatch.batch_size = 2
    /\ Len(mOutcome) = 3
    /\ mCount.skipped_count = 0
    /\ mSleeps = <<FALSE, TRUE, FALSE>>

\* ---------------------------------------------------------------------
\* The classification of file-level verification

\* The content hash obtainable for an asset: that of the bulk map, or if the
\* bulk map has none, that of the lookup by id; None if neither has one.
ObtainableHash(asset_id) ==
    IF remoteBulk[asset_id] \notin {"absent", None} THEN remoteBulk[asset_id]
    ELSE IF remoteDirect[asset_id] \notin {"absent", None}
    THEN remoteDirect[asset_id]
    ELSE None

\* The classification as the claim words it, for a path with a ledger row.
StatedStatus(path) ==
    LET asset_id == GetFile(ledger, path).immich_asset_id
    IN IF asset_id = None THEN "missing"
       ELSE IF ObtainableHash(asset_id) = None THEN "missing"
       ELSE IF localHash[path] # ObtainableHash(asset_id) THEN "mismatch"
       ELSE "ok"

\* The same, with the case of a source file that cannot be read.
StatedStatusOrError(path) ==
    LET asset_id == GetFile(ledger, path).immich_asset_id
    IN IF asset_id = None THEN "missing"
       ELSE IF ObtainableHash(asset_id) = None THEN "missing"
       ELSE IF localHash[path] = "raise" THEN "error"
       ELSE IF localHash[path] # ObtainableHash(asset_id) THEN "mismatch"
       ELSE "ok"

\* C25 as stated: a source path with a ledger record is classified MISSING
\* without an asset id or without an obtainable hash (bulk map first, then
\* the lookup by id), and otherwise MISMATCH when the local hash differs and
\* OK when it is equal.
ClassifiedAsStated ==
    \A k \in 1..Len(vLog) :
        GetFile(ledger, vLog[k].path) # NoRow =>
            vLog[k].status = StatedStatus(vLog[k].path)

\* C25, amended: as above, and when a hash is obtainable but the source file
\* cannot be read the path is logged with status error and put on the
\* missing list; only a file that was read is compared.
ClassifiedAsStatedOrError ==
    /\ \A k \in 1..Len(vLog) :
          GetFile(ledger, vLog[k].path) # NoRow =>
              vLog[k].status = StatedStatusOrError(vLog[k].path)
    /\ (vPc = "done" /\ runNo = 1) =>
          \A k \in 1..Len(vLog) :
              vLog[k].status \in {"missing", "error"} <=>
                  vLog[k].path \in Range(vResult.missing_in_immich)

\* A finished run that found one path OK through the lookup by id, one
\* MISMATCH, and one that could not be read.
ClassifiedAsStatedOrErrorWitness ==
    /\ vPc = "done" /\ runNo = 1
    /\ \E i, j, k \in 1..Len(vLog) :
          /\ vLog[i].status = "ok"
          /\ BulkChecksum(GetFile(ledger, vLog[i].path).immich_asset_id) = None
          /\ vLog[j].status = "mismatch"
          /\ vLog[k].status = "error"

\* The lines a progress log holds for a path.
LinesOf(log, path) == {k \in 1..Len(log) : log[k].path = path}

\* C26: every path the loop has examined, whatever its outcome, has its line
\* in the progress log before the next path is examined, in the order of
\* examination; and a path with a line in the log when a run starts is not
\* looked up, read or hashed by that run and gets no new line.
OutcomeLoggedBeforeNextPath ==
    vPc \in {"loop", "killed", "done"} =>
        /\ Len(vLog) = Len(vLogAtStart) + (vI - 1)
        /\ \A k \in 1..(vI - 1) :
              vLog[Len(vLogAtStart) + k].path = vToVerify[k]
        /\ vLooked = {vToVerify[k] : k \in 1..(vI - 1)}
        /\ \A p \in verified_paths(vLogAtStart) :
              /\ p \notin vLooked \cup readLog
              /\ LinesOf(vLog, p) = LinesOf(vLogAtStart, p)
        /\ \A p \in Paths : Cardinality(LinesOf(vLog, p)) <= 1

\* A second run, after the first was killed having logged an OK path: it
\* verified the remaining paths and left that path alone.
OutcomeLoggedBeforeNextPathWitness ==
    /\ runNo = 2 /\ vPc = "done" /\ killedAt > 0
    /\ \E k \in 1..Len(vLogAtStart) : vLogAtStart[k].status = "ok"
    /\ vLooked # {}
    /\ Len(vLog) = Len(srcFiles)

\* ---------------------------------------------------------------------
\* The order of file-level verification

\* What the reader can yield: the files of the tree, in any order.
OrderListings == SeqsNoDup(Range(VerListing), MaxFiles) \ {<<>>}

\* A path without a ledger row, or migrated with a matching checksum.
OrderEnvs == {e \in PathEnvs : e.row = "none" \/ (e.row = "asset" /\ e.bulk = "c1" /\ e.local = "c1")}

OrderInit ==
    /\ RestIdle
    /\ PairIdle /\ MigIdle /\ LogIdle /\ RetryIdle
    /\ \E env \in [Range(VerListing) -> OrderEnvs] :
        /\ ledger = LedgerFor(VerListing, env)
        /\ remoteBulk = [a \in VerAssets |->
              LET p == CHOOSE q \in Range(VerListing) : VerAssetOf(q) = a
              IN IF env[p].row # "asset" THEN "absent" ELSE env[p].bulk]
        /\ remoteDirect = [a \in VerAssets |-> "absent"]
        /\ localHash = [p \in Paths |-> "c1"]
    /\ lastCall = [p \in Paths |-> GetFile(ledger, p)]
    /\ prevStatus = [p \in Paths |-> None]
    /\ srcFiles \in OrderListings
    /\ vLog = <<>>
    /\ vPc = "idle"
    /\ vToVerify = <<>>
    /\ vI = 0
    /\ vLists = NoLists
    /\ vCounts = [total_files |-> 0, immich_count |-> 0]
    /\ vResult = NoResult
    /\ vLooked = {}
    /\ vLogAtStart = <<>>

SpecVerifyOrder == OrderInit /\ [][VerNext]_vars

\* C27: whatever the order in which the reader yields the files, the
\* progress log lists paths in ascending order, and once the (fresh or
\* resumed) verification is done it holds exactly one line per enumerated
\* path.
LogIsAscendingAndComplete ==
    /\ \A i, j \in 1..Len(vLog) :
          i < j => PathLess(vLog[i].path, vLog[j].path)
    /\ vPc = "done" =>
          /\ Len(vLog) = Len(srcFiles)
          /\ verified_paths(vLog) = Range(srcFiles)

\* A finished fresh run over three files that the reader did not yield in
\* ascending order.
LogIsAscendingAndCompleteWitness ==
    /\ vPc = "done" /\ runNo = 1 /\ killedAt = 0
    /\ Len(srcFiles) = 3
    /\ PathLess(srcFiles[2], srcFiles[1])
    /\ Len(vLog) = 3

\* ---------------------------------------------------------------------
\* Resumption of album-level verification

\* The lines the progress file holds for a source album id.
AlbumLinesOf(log, id) == {k \in 1..Len(log) : log[k].synology_album_id = id}

AvBatchInit ==
    /\ LedgerIdle /\ PairIdle /\ MigIdle /\ LogIdle /\ VerIdle /\ RetryIdle
    /\ AmIdle /\ ExIdle /\ ClientIdle
    /\ srcFiles = <<>>
    /\ synAlbums \in SynListings
    /\ immAlbums = <<ImmichAlbum("x", "A"), ImmichAlbum("y", "B")>>
    /\ albumTable = [s \in SynIds |-> NoAlbumRow]
    /\ albHash \in {h \in [AlbumFileIds -> {"c1", "c3", "raise"}] :
                       h[IMG_HEIC] # "c3" /\ h[IMG_MOV] # "raise"}
    /\ immAssets \in [ImmIds -> AlbumAssetSets]
    /\ videoAsset \in [CompanionIds -> {None, "c3"}]
    /\ avPc = "idle"
    /\ avMatched = <<>>
    /\ avI = 0
    /\ avVerified = {}
    /\ avResults = <<>>
    /\ avLog = <<>>
    /\ avReport = NoReport
    /\ avReads = {}
    /\ avRun = 0
    /\ avBatch \in AlbumBatchSizes
    /\ avExit = None

SpecAlbumBatch == AvBatchInit /\ [][AvNext]_vars

\* D: the content hashes of the destination album's members together with
\* those of their linked companion assets.
DestinationHashes(immich_album_id) ==
    {a.checksum : a \in {b \in immAssets[immich_album_id] : b.checksum # None}}
    \cup {videoAsset[a.livePhotoVideoId] :
            a \in {b \in immAssets[immich_album_id] :
                      b.livePhotoVideoId # None /\ videoAsset[b.livePhotoVideoId] # None}}

\* C29: in every album result, a source member file is listed as missing
\* iff its local hash is not in D, and a destination hash is listed as
\* extra iff it is the hash of no source member file, whatever the batch
\* size.
ComparisonIsSetDifference ==
    \A k \in 1..Len(avResults) :
        LET res == avResults[k]
            members == Range(AlbumFiles(res.synology_album_id))
            D == DestinationHashes(res.immich_album_id)
        IN /\ \A f \in members :
                 f \in Range(res.missing_in_immich) <=> albHash[f] \notin D
           /\ \A h \in D :
                 h \in res.extra_in_immich <=> \A f \in members : albHash[f] # h
           /\ Range(res.missing_in_immich) \subseteq members
           /\ res.extra_in_immich \subseteq D

\* ---------------------------------------------------------------------
\* The one-sided lists of the album verification report

\* The positions of the source listing whose album no strategy matched.
SourceUnmatched ==
    {k \in 1..Len(synAlbums) :
        \A key \in NameCandidates \cup IdCandidates : key[1] # synAlbums[k].id}

\* The positions of the destination listing whose album no strategy matched
\* to any source album.
DestinationUnmatched ==
    {k \in 1..Len(immAlbums) :
        \A key \in NameCandidates \cup IdCandidates : key[2] # immAlbums[k].id}

\* C30: in the report, the source-only list names exactly the source albums
\* that neither strategy matched, the destination-only list names exactly
\* the destination albums that neither strategy matched to any source
\* album, and every source album is in exactly one of the matched list and
\* the source-only list.
OneSidedIffUnmatchedByBoth ==
    avPc = "done" =>
        /\ \A name \in {"A", "B"} :
              Occurrences(avReport.synology_only, name)
              = Cardinality({k \in SourceUnmatched : synAlbums[k].name = name})
        /\ \A name \in {"A", "B"} :
              Occurrences(avReport.immich_only, name)
              = Cardinality({k \in DestinationUnmatched : immAlbums[k].albumName = name})
        /\ \A k \in 1..Len(synAlbums) :
              Cardinality({j \in 1..Len(avMatched) :
                              avMatched[j].s.id = synAlbums[k].id})
              = IF k \in SourceUnmatched THEN 0 ELSE 1

\* ---------------------------------------------------------------------
\* Album migration when the assignment of the assets fails

\* The create_album calls that returned the destination album id.
CreatedAs(immich_album_id) ==
    {k \in Created : amCalls[k].result = immich_album_id}

\* The positions of the source listing that hold the source album id.
PositionsOf(synology_album_id) ==
    {i \in 1..Len(synAlbums) : synAlbums[i].id = synology_album_id}

HasSuccessAsset(path) ==
    \E i \in 1..Len(ledger) :
        /\ ledger[i].source_path = path
        /\ ledger[i].status = SUCCESS
        /\ ledger[i].immich_asset_id # None

\* The destination asset id the ledger holds for the path.
AssetIdOf(path) ==
    (CHOOSE r \in Range(ledger) : r.source_path = path).immich_asset_id

\* The asset ids of the album's member paths that have a SUCCESS record,
\* in member order.
SuccessAssetIds(synology_album_id) ==
    LET members == SelectSeq(AlbumFiles(synology_album_id), HasSuccessAsset)
    IN [k \in 1..Len(members) |-> AssetIdOf(members[k])]

\* C32: the asset ids assigned to a created destination album are exactly
\* the destination asset ids of the member paths that have a ledger record
\* with status SUCCESS: member paths with no record or with status FAILED
\* or UNSUPPORTED contribute none, and when no member contributes none is
\* assigned.
AssignedAreSuccessAssets ==
    \A k \in Created :
        LET expected == SuccessAssetIds(amCalls[k].synology_album_id)
            adds == {a \in 1..Len(amAdds) : amAdds[a].album_id = amCalls[k].result}
        IN /\ \A a \in adds : amAdds[a].asset_ids = expected
           /\ Cardinality(adds) = IF expected = <<>> THEN 0 ELSE 1

\* The album of the Live Photo was created and given the asset id of one
\* member only, the other member's record being FAILED or UNSUPPORTED.
AssignedAreSuccessAssetsWitness ==
    /\ \E a \in 1..Len(amAdds) : Len(amAdds[a].asset_ids) = 1
    /\ \E k \in Created : amCalls[k].synology_album_id = 1
    /\ \E i \in 1..Len(ledger) :
          ledger[i].source_path \in {IMG_HEIC, IMG_MOV}
          /\ ledger[i].status \in {FAILED, UNSUPPORTED}
    /\ HasSuccessAsset(IMG_HEIC) # HasSuccessAsset(IMG_MOV)

\* ---------------------------------------------------------------------
\* Files that are neither images nor .mov in pairing

\* Neither a recognized image extension nor .mov, by the extensions of the
\* universe.
IsOtherFile(f) == ~IsImageFile(f) /\ ~IsMovFile(f)

IsNotOtherFile(f) == ~IsOtherFile(f)

\* The emitted groups that mention the file.
GroupsOf(f) ==
    {k \in 1..Len(pairOut) : f \in {pairOut[k].image_path, pairOut[k].video_path}}

\* The emitted groups that mention no other file.
GroupsWithoutOthers ==
    {k \in 1..Len(pairOut) : IsNotOtherFile(pairOut[k].image_path)}

\* C33: a file whose extension is neither an image extension nor .mov is
\* emitted as its own singleton group, whatever files share its directory
\* and lowercased stem, and the remaining groups are the groups pair_files
\* emits for the listing without those files.
OtherFilesAreNeverMerged ==
    pairPc = "done" =>
        /\ \A f \in Range(pairIn) :
              IsOtherFile(f) =>
                 /\ Cardinality(GroupsOf(f)) = 1
                 /\ \A k \in GroupsOf(f) : pairOut[k] = LivePhotoGroup(f, NoFile)
        /\ {pairOut[k] : k \in GroupsWithoutOthers}
              = Range(pair_files(SelectSeq(pairIn, IsNotOtherFile)))
        /\ Cardinality(GroupsWithoutOthers)
              = Len(pair_files(SelectSeq(pairIn, IsNotOtherFile)))

\* /a/IMG.mp4 listed between /a/IMG.HEIC and /a/img.MOV: the Live Photo
\* is paired and the .mp4 is a singleton.
OtherFilesAreNeverMergedWitness ==
    /\ pairPc = "done"
    /\ pairIn = <<IMG_HEIC, P("/a", "IMG", ".mp4"), IMG_MOV>>
    /\ Len(pairOut) = 2
    /\ \E k \in 1..Len(pairOut) : pairOut[k] = LivePhotoGroup(IMG_HEIC, IMG_MOV)
    /\ \E k \in 1..Len(pairOut) :
          pairOut[k] = LivePhotoGroup(P("/a", "IMG", ".mp4"), NoFile)

\* ---------------------------------------------------------------------
\* Backfiller and the backfill command

A_JPG == P("/a", "IMG", ".jpg")

\* Path(file_info.path).name
FileName(path) == <<path.name, path.ext>>

\* The id the remote gave the asset uploaded from the file.
BfAssetOf(p) ==
    CASE p = A_JPG -> "asset1" [] p = B_JPG -> "asset2" [] OTHER -> "asset3"

\* An asset of the remote listing: its id and originalFileName, and the
\* source file whose bytes the remote holds under that id.
RemoteAsset(content) ==
    [id |-> BfAssetOf(content), originalFileName |-> FileName(content),
     content |-> content]

\* A mutation of find_unrecorded_files: a file whose record is not SUCCESS
\* counts as unrecorded.
RECURSIVE FindNotSucceeded(_, _)
FindNotSucceeded(table, source_files) ==
    IF source_files = <<>> THEN <<>>
    ELSE (IF GetFile(table, Head(source_files)) = NoRow
             \/ GetFile(table, Head(source_files)).status # SUCCESS
          THEN <<Head(source_files)>> ELSE <<>>)
         \o FindNotSucceeded(table, Tail(source_files))

\* find_unrecorded_files: the listed files get_file finds no record for.
RECURSIVE find_unrecorded_files(_, _)
find_unrecorded_files(table, source_files) ==
    IF source_files = <<>> THEN <<>>
    ELSE (IF GetFile(table, Head(source_files)) = NoRow
          THEN <<Head(source_files)>> ELSE <<>>)
         \o find_unrecorded_files(table, Tail(source_files))

\* filename_to_asset.get(filename): the id of the last listed asset of that
\* originalFileName.
FilenameToAsset(assets, filename) ==
    LET ks == {k \in 1..Len(assets) : assets[k].originalFileName = filename}
    IN IF ks = {} THEN None
       ELSE assets[CHOOSE k \in ks : \A j \in ks : j <= k].id

\* check_immich_existence: existing, the files whose name is in the map,
\* with the asset id found.
RECURSIVE ExistingFiles(_, _)
ExistingFiles(files, assets) ==
    IF files = <<>> THEN <<>>
    ELSE (IF FilenameToAsset(assets, FileName(Head(files))) # None
          THEN <<[file_info |-> Head(files),
                  asset_id |-> FilenameToAsset(assets, FileName(Head(files)))]>>
          ELSE <<>>)
         \o ExistingFiles(Tail(files), assets)

\* check_immich_existence: missing, the files whose name is not in the map.
RECURSIVE MissingFromImmich(_, _)
MissingFromImmich(files, assets) ==
    IF files = <<>> THEN <<>>
    ELSE (IF FilenameToAsset(assets, FileName(Head(files))) = None
          THEN <<Head(files)>> ELSE <<>>)
         \o MissingFromImmich(Tail(files), assets)

\* The next phase after the listing was classified, or after a loop ended.
BfPhase(existing_left, missing_left) ==
    IF existing_left THEN "existing"
    ELSE IF missing_left THEN "missing" ELSE "done"

\* The backfill command up to step 4: the source is listed, the unrecorded
\* files are found and looked up on the remote; with nothing unrecorded, or
\* in dry-run mode, the command returns.
BfStart ==
    /\ bfPc = "idle"
    /\ ledgerAtStart' = ledger
    /\ LET unrecorded == find_unrecorded_files(ledger, srcFiles)
           existing == ExistingFiles(unrecorded, bfRemote)
           missing == MissingFromImmich(unrecorded, bfRemote)
       IN IF unrecorded = <<>>
          THEN /\ bfPc' = "done"
               /\ UNCHANGED <<bfExisting, bfMissing, bfI>>
          ELSE /\ bfExisting' = existing
               /\ bfMissing' = missing
               /\ bfI' = 1
               /\ bfPc' = IF dryRun THEN "done"
                          ELSE BfPhase(existing # <<>>, missing # <<>>)
    /\ UNCHANGED <<ledgerVars, pairVars, migVars, readLog, infoLog, uploadLog,
                   writeLog, runNo, killedAt, videoFailed, unsupRun,
                   imageFailed, verVars, retryVars, albumVars, avVars, amVars,
                   exVars, bfRemote, upVars, gaVars>>

\* One iteration of backfill_existing: the file is recorded SUCCESS with
\* the asset id found, without an upload.
BfExisting ==
    /\ bfPc = "existing"
    /\ LET item == bfExisting[bfI]
       IN MigRecord(Row(item.file_info, None, 0, "t1", item.asset_id, SUCCESS, None))
    /\ IF bfI < Len(bfExisting)
       THEN bfI' = bfI + 1 /\ bfPc' = "existing"
       ELSE bfI' = 1 /\ bfPc' = BfPhase(FALSE, bfMissing # <<>>)
    /\ UNCHANGED <<pairVars, migVars, readLog, infoLog, uploadLog,
                   ledgerAtStart, runNo, killedAt, videoFailed, unsupRun,
                   imageFailed, verVars, retryVars, albumVars, avVars, amVars,
                   exVars, bfRemote, bfExisting, bfMissing, upVars, gaVars>>

\* One iteration of upload_missing: the file is read and uploaded, and
\* recorded SUCCESS or FAILED; an exception of the read is recorded FAILED.
BfUpload ==
    /\ bfPc = "missing"
    /\ LET file_info == bfMissing[bfI]
       IN /\ readLog' = readLog \cup {file_info}
          /\ \E read_ok \in BOOLEAN, result \in UploadResults :
                IF ~read_ok
                THEN /\ MigRecord(Row(file_info, None, 0, "t1", None, FAILED,
                                      ReadErrorText))
                     /\ UNCHANGED uploadLog
                ELSE /\ uploadLog' = uploadLog \cup {file_info}
                     /\ IF result.success
                        THEN MigRecord(Row(file_info, None, 0, "t1",
                                           result.asset_id, SUCCESS, None))
                        ELSE MigRecord(Row(file_info, None, 0, "t1", None,
                                           FAILED, result.error_message))
    /\ IF bfI < Len(bfMissing)
       THEN bfI' = bfI + 1 /\ bfPc' = "missing"
       ELSE bfI' = bfI /\ bfPc' = "done"
    /\ UNCHANGED <<pairVars, migVars, infoLog, ledgerAtStart, runNo, killedAt,
                   videoFailed, unsupRun, imageFailed, verVars, retryVars,
                   albumVars, avVars, amVars, exVars, bfRemote, bfExisting,
                   bfMissing, upVars, gaVars>>

\* The source trees, ledgers and remote listings of the backfill runs
\* checked. /a/IMG.jpg and /b/IMG.jpg have the same file name.
BfTrees == {<<A_JPG, B_JPG, IMG_HEIC>>, <<B_JPG, A_JPG>>, <<IMG_HEIC, B_JPG>>}

BfRows(p) ==
    {NoRow,
     Row(p, None, 0, "t0", BfAssetOf(p), SUCCESS, None),
     Row(p, None, 0, "t0", None, FAILED, "err"),
     Row(p, None, 0, "t0", None, UNSUPPORTED, "unsupported")}

BfRemotes ==
    {<<>>,
     <<RemoteAsset(A_JPG)>>,
     <<RemoteAsset(B_JPG), RemoteAsset(A_JPG)>>,
     <<RemoteAsset(A_JPG), RemoteAsset(IMG_HEIC)>>}

BfInit ==
    /\ PairIdle /\ LogIdle /\ VerIdle /\ RetryIdle
    /\ AlbumIdle /\ AvIdle /\ AmIdle /\ ExIdle /\ UpIdle /\ GaIdle
    /\ srcFiles \in BfTrees
    /\ dryRun \in BOOLEAN
    /\ cfgBatch = [batch_size |-> 100, batch_delay |-> 1]
    /\ mPc = "off"
    /\ mGroups = <<>>
    /\ mIdx = 0
    /\ mUpload = NoUpload
    /\ mCount = ZeroCount
    /\ mBatch = 0
    /\ mSleeps = <<>>
    /\ mOutcome = <<>>
    /\ \E a \in BfRows(A_JPG), b \in BfRows(B_JPG), c \in BfRows(IMG_HEIC) :
          ledger = LET t1 == IF a = NoRow THEN <<>> ELSE RecordFile(<<>>, a)
                       t2 == IF b = NoRow THEN t1 ELSE RecordFile(t1, b)
                   IN IF c = NoRow THEN t2 ELSE RecordFile(t2, c)
    /\ lastCall = [p \in Paths |-> GetFile(ledger, p)]
    /\ prevStatus = [p \in Paths |-> None]
    /\ bfRemote \in BfRemotes
    /\ bfPc = "idle"
    /\ bfExisting = <<>>
    /\ bfMissing = <<>>
    /\ bfI = 0

BfNext ==
    \/ BfStart
    \/ BfExisting
    \/ BfUpload

SpecBackfill == BfInit /\ [][BfNext]_vars

\* The remote holds the file: one of its assets has the file's bytes.
RemoteHas(f) == \E k \in 1..Len(bfRemote) : bfRemote[k].content = f

\* C34: after a non-dry-run backfill, every listed file has a ledger row;
\* a file that had none is recorded SUCCESS with the id of its remote asset
\* and is not uploaded when the remote already has it, and otherwise it is
\* read for upload and recorded SUCCESS or FAILED as the upload went.
BackfillReconciles ==
    (bfPc = "done" /\ ~dryRun) =>
        \A f \in Range(srcFiles) :
            /\ GetFile(ledger, f) # NoRow
            /\ GetFile(ledgerAtStart, f) = NoRow =>
                  IF RemoteHas(f)
                  THEN /\ GetFile(ledger, f).status = SUCCESS
                       /\ \E k \in 1..Len(bfRemote) :
                             /\ bfRemote[k].content = f
                             /\ bfRemote[k].id = GetFile(ledger, f).immich_asset_id
                       /\ f \notin uploadLog
                  ELSE /\ f \in readLog
                       /\ GetFile(ledger, f).status \in {SUCCESS, FAILED}
                       /\ GetFile(ledger, f).status = SUCCESS => f \in uploadLog

\* The paths that had a ledger row when the backfill command started.
RecordedAtStart == {p \in Paths : GetFile(ledgerAtStart, p) # NoRow}

\* C40: the backfill command leaves the row of every path that had one
\* when it started as it was, whatever its status, and writes rows only
\* for paths that had none; in dry-run mode it writes no row and reads and
\* uploads nothing.
BackfillLeavesRecordedRows ==
    bfPc \in {"existing", "missing", "done"} =>
        /\ \A p \in RecordedAtStart : GetFile(ledger, p) = GetFile(ledgerAtStart, p)
        /\ writeLog \cap RecordedAtStart = {}
        /\ dryRun => /\ ledger = ledgerAtStart
                     /\ writeLog = {}
                     /\ readLog = {}
                     /\ uploadLog = {}

\* A finished run over a tree with a FAILED row and an UNSUPPORTED or
\* SUCCESS row that recorded the one file that had no row.
BackfillLeavesRecordedRowsWitness ==
    /\ bfPc = "done"
    /\ ~dryRun
    /\ srcFiles = <<A_JPG, B_JPG, IMG_HEIC>>
    /\ Cardinality(RecordedAtStart) = 2
    /\ \E p \in RecordedAtStart : GetFile(ledgerAtStart, p).status = FAILED
    /\ Cardinality(writeLog) = 1

\* ---------------------------------------------------------------------
\* ImmichClient.upload_asset

\* What the POST to /api/assets comes back with: an httpx.HTTPError, or a
\* response with its status code, its text, and the "status" and "id"
\* fields of its JSON body (None when the body has no such field).
TransportError == [kind |-> "error", status_code |-> 0, text |-> "",
                   status |-> None, id |-> None]

Response(status_code, text, status, id) ==
    [kind |-> "response", status_code |-> status_code, text |-> text,
     status |-> status, id |-> id]

Replies ==
    {TransportError} \cup
    {Response(c, t, st, id) :
        c \in {200, 201, 400, 500},
        t \in {"", "Unsupported file type", "bad request"},
        st \in {None, "duplicate", "created"},
        id \in {None, "asset1"}}

\* "unsupported" in response.text.lower(), on the texts of the universe.
ContainsUnsupported(text) == text = "Unsupported file type"

\* f"HTTP {response.status_code}: {response.text}"
HttpErrorText(response) == "HTTP error"

ImmichUploadResult(success, asset_id, error_message, is_unsupported) ==
    [success |-> success, asset_id |-> asset_id,
     error_message |-> error_message, is_unsupported |-> is_unsupported]

_parse_upload_response(response) ==
    IF response.status_code = 201
    THEN ImmichUploadResult(TRUE, response.id, None, FALSE)
    ELSE IF response.status_code = 200 /\ response.status = "duplicate"
    THEN ImmichUploadResult(TRUE, response.id, None, FALSE)
    ELSE IF response.status_code = 400
    THEN ImmichUploadResult(FALSE, None, response.text,
                            ContainsUnsupported(response.text))
    ELSE ImmichUploadResult(FALSE, None, HttpErrorText(response), FALSE)

\* upload_asset from the reply on: an httpx.HTTPError becomes a failed
\* result, a response is parsed.
upload_asset(reply) ==
    IF reply.kind = "error"
    THEN ImmichUploadResult(FALSE, None, "network error", FALSE)
    ELSE _parse_upload_response(reply)

UpCall ==
    /\ upPc = "idle"
    /\ upResult' = upload_asset(upReply)
    /\ upPc' = "done"
    /\ UNCHANGED <<ledgerVars, pairVars, migVars, logVars, verVars, retryVars,
                   albumVars, avVars, amVars, exVars, bfVars, upReply, gaVars>>

UpInit ==
    /\ LedgerIdle /\ PairIdle /\ MigIdle /\ LogIdle /\ VerIdle /\ RetryIdle
    /\ AlbumIdle /\ AvIdle /\ AmIdle /\ ExIdle /\ BfIdle /\ GaIdle
    /\ srcFiles = <<>>
    /\ upReply \in Replies
    /\ upResult = NoUpload
    /\ upPc = "idle"

UpNext == UpCall

SpecUpload == UpInit /\ [][UpNext]_vars

\* C35: every upload result has an asset id iff it is a success and an
\* error message iff it is not, and is marked unsupported only if it is
\* not a success and the response was a 400 whose text contains
\* "unsupported" in any case.
UploadResultIsWellFormed ==
    upPc = "done" =>
        /\ upResult.asset_id # None <=> upResult.success
        /\ upResult.error_message # None <=> ~upResult.success
        /\ upResult.is_unsupported =>
              /\ ~upResult.success
              /\ upReply.kind = "response"
              /\ upReply.status_code = 400
              /\ ContainsUnsupported(upReply.text)

\* ---------------------------------------------------------------------
\* ImmichClient.get_all_assets

\* The most assets the servers checked hold.
MaxAssets == 9

\* page_size of the runs checked (get_all_assets asks for pages of 1000).
PageSize == 2

\* A mutation of the server's paging: every request gets the first page.
PageOfFirst(server, page) ==
    SubSeq(server, 1, IF PageSize < Len(server) THEN PageSize ELSE Len(server))

\* data["assets"]["items"] of the answer to {"size": page_size, "page":
\* page}: the page-th slice of the server's listing.
PageOf(server, page) ==
    SubSeq(server, (page - 1) * PageSize + 1,
           IF page * PageSize < Len(server) THEN page * PageSize ELSE Len(server))

\* One pass of the while loop: a request, and the three breaks.
GaRequest ==
    /\ gaPc = "loop"
    /\ gaRequests' = Append(gaRequests, gaPage)
    /\ IF Len(gaRequests) + 1 = gaErrorAt
       THEN /\ gaPc' = "done"
            /\ UNCHANGED <<gaAll, gaPage>>
       ELSE LET assets == PageOf(gaServer, gaPage)
            IN IF assets = <<>>
               THEN /\ gaPc' = "done"
                    /\ UNCHANGED <<gaAll, gaPage>>
               ELSE /\ gaAll' = gaAll \o assets
                    /\ IF Len(assets) < PageSize
                       THEN gaPc' = "done" /\ UNCHANGED gaPage
                       ELSE gaPc' = "loop" /\ gaPage' = gaPage + 1
    /\ UNCHANGED <<ledgerVars, pairVars, migVars, logVars, verVars, retryVars,
                   albumVars, avVars, amVars, exVars, bfVars, upVars, gaServer,
                   gaErrorAt>>

\* get_all_assets before its loop, against a server that holds up to
\* MaxAssets assets and answers one request, or none, with a non-200 status.
GaInit ==
    /\ LedgerIdle /\ PairIdle /\ MigIdle /\ LogIdle /\ VerIdle /\ RetryIdle
    /\ AlbumIdle /\ AvIdle /\ AmIdle /\ ExIdle /\ BfIdle /\ UpIdle
    /\ srcFiles = <<>>
    /\ \E n \in 0..MaxAssets : gaServer = [k \in 1..n |-> k]
    /\ gaErrorAt \in 0..(MaxAssets \div PageSize + 1)
    /\ gaPage = 1
    /\ gaAll = <<>>
    /\ gaRequests = <<>>
    /\ gaPc = "loop"

GaNext == GaRequest

\* The loop has no blocking step other than the request, which the server
\* answers.
SpecAssets == GaInit /\ [][GaNext]_vars /\ WF_vars(GaNext)

\* The requests made so far ask for pages 1, 2, 3, ... in that order.
RequestsAscend == gaRequests = [k \in 1..Len(gaRequests) |-> k]

\* The page is empty or shorter than the page size.
EmptyOrShort(page) == Len(PageOf(gaServer, page)) < PageSize

\* The first k items of the server's listing, or all of them.
FirstItems(k) ==
    SubSeq(gaServer, 1, IF k < Len(gaServer) THEN k ELSE Len(gaServer))

\* C36 as stated: the pages are requested in increasing order, the last
\* page requested is the first that is empty or short, and the result is
\* the concatenation of all pages up to and including it.
StopsAtFirstShortPage ==
    /\ RequestsAscend
    /\ gaPc = "done" =>
          LET last == Len(gaRequests)
          IN /\ last >= 1
             /\ EmptyOrShort(last)
             /\ \A j \in 1..(last - 1) : ~EmptyOrShort(j)
             /\ gaAll = FirstItems(last * PageSize)

\* The last request was answered with a non-200 status.
EndedOnError == Len(gaRequests) = gaErrorAt

\* The loop ends at the first page that is empty, short, or answered with
\* a non-200 status, with the items of all pages received before a failed
\* request, or up to and including the empty or short page.
StopsAtFirstShortOrFailedPageNow ==
    /\ RequestsAscend
    /\ Len(gaRequests) <= Len(gaServer) \div PageSize + 1
    /\ gaPc = "done" =>
          LET last == Len(gaRequests)
          IN /\ last >= 1
             /\ EndedOnError \/ EmptyOrShort(last)
             /\ \A j \in 1..(last - 1) : ~EmptyOrShort(j) /\ j # gaErrorAt
             /\ gaAll = FirstItems((IF EndedOnError THEN last - 1 ELSE last) * PageSize)

\* C36, amended: as above at every moment, and the loop ends for every
\* server that holds finitely many assets.
StopsAtFirstShortOrFailedPage ==
    /\ []StopsAtFirstShortOrFailedPageNow
    /\ <>(gaPc = "done")

\* The second request failed against a server that holds two full pages:
\* the loop ended with the first page only.
StopsAtFirstShortOrFailedPageWitness ==
    /\ gaPc = "done"
    /\ Len(gaServer) = 2 * PageSize
    /\ gaErrorAt = 2
    /\ gaRequests = <<1, 2>>
    /\ Len(gaAll) = PageSize

\* ---------------------------------------------------------------------
\* The totals of Migrator.run

\* C37: at the end of every run, total_files is the sum of success_count,
\* failed_count, skipped_count and unsupported_count, and is the number of
\* groups pairing produced, a Live Photo pair counting once.
TotalIsSumAndGroupCount ==
    mPc = "done" =>
        /\ mCount.total_files = mCount.success_count + mCount.failed_count
                                + mCount.skipped_count + mCount.unsupported_count
        /\ mCount.total_files = Len(pair_files(srcFiles))
        /\ mCount.total_files = Len(mGroups)

\* A finished run over three files, two of them a Live Photo: two groups,
\* one skipped and one failed or unsupported.
TotalIsSumAndGroupCountWitness ==
    /\ mPc = "done"
    /\ Len(srcFiles) = 3
    /\ mCount.total_files = 2
    /\ mCount.skipped_count = 1
    /\ mCount.failed_count + mCount.unsupported_count = 1

\* ---------------------------------------------------------------------
\* A run after a run that left nothing to do

\* The run has ended, was not a dry run, and counted every group as
\* success or skipped.
CleanEnd ==
    /\ mPc = "done"
    /\ ~dryRun
    /\ Len(mOutcome) = Len(mGroups)
    /\ \A i \in 1..Len(mOutcome) : mOutcome[i] \in {"success", "skipped"}

\* Every group of this run had its image recorded SUCCESS when the run
\* started.
NothingToDoAtStart ==
    \A k \in 1..Len(mGroups) :
        IsMigrated(ledgerAtStart, mGroups[k].image_path)

\* The run that follows a clean end starts with nothing to do.
CleanEndLeavesNothingToDo ==
    (CleanEnd /\ runNo' = runNo + 1) =>
        /\ mGroups' = mGroups
        /\ ledgerAtStart' = ledger
        /\ \A k \in 1..Len(mGroups') :
              IsMigrated(ledger', mGroups'[k].image_path)

\* A run that starts with nothing to do reads, uploads and writes nothing
\* and counts every group it has passed as skipped.
NothingToDoDoesNothing ==
    (mPc \in {"check", "done"} /\ NothingToDoAtStart) =>
        /\ readLog = {} /\ infoLog = {} /\ uploadLog = {} /\ writeLog = {}
        /\ ledger = ledgerAtStart
        /\ \A i \in 1..Len(mOutcome) : mOutcome[i] = "skipped"
        /\ mCount.skipped_count = Len(mOutcome)
        /\ mPc = "done" => mCount.skipped_count = Len(mGroups)

\* C38: if a run that is not a dry run ends with every group counted as
\* success or skipped, the run that follows it over the unchanged source
\* reads no file, uploads nothing, writes no ledger row, and counts every
\* group as skipped.
RerunAfterCleanEndSkipsAll ==
    /\ [][CleanEndLeavesNothingToDo]_vars
    /\ []NothingToDoDoesNothing

\* The second run over a Live Photo and a single image ended with both
\* groups skipped, on the rows the first run wrote.
RerunAfterCleanEndSkipsAllWitness ==
    /\ runNo = 2
    /\ mPc = "done"
    /\ Len(mGroups) = 2
    /\ mCount.skipped_count = 2
    /\ readLog = {}
    /\ Len(ledger) >= 2
    /\ \E k \in 1..Len(mGroups) : is_live_photo(mGroups[k])

\* ---------------------------------------------------------------------
\* The report of a resumed album verification

\* The line an earlier run left in the progress file for an album pair it
\* found equal.
EarlierLine(synology_album_id, immich_album_id) ==
    [synology_album_id |-> synology_album_id,
     immich_album_id |-> immich_album_id,
     missing_count |-> 0, extra_count |-> 0, mismatch_count |-> 0,
     match_type |-> "name"]

\* verify-albums over two albums matched by name, started on the progress
\* file of an earlier run that was stopped after no album or after one.
AvResumeInit ==
    /\ LedgerIdle /\ PairIdle /\ MigIdle /\ LogIdle /\ VerIdle /\ RetryIdle
    /\ AmIdle /\ ExIdle /\ ClientIdle
    /\ srcFiles = <<>>
    /\ synAlbums = <<SynologyAlbum(1, "A"), SynologyAlbum(2, "B")>>
    /\ immAlbums = <<ImmichAlbum("x", "A"), ImmichAlbum("y", "B")>>
    /\ albumTable = [s \in SynIds |-> NoAlbumRow]
    /\ albHash \in {h \in [AlbumFileIds -> {"c1", "c3", "raise"}] :
                       h[IMG_HEIC] # "c3" /\ h[IMG_MOV] # "raise"}
    /\ immAssets \in [ImmIds -> AlbumAssetSets]
    /\ videoAsset \in [CompanionIds -> {None, "c3"}]
    /\ avPc = "idle"
    /\ avMatched = <<>>
    /\ avI = 0
    /\ avVerified = {}
    /\ avResults = <<>>
    /\ avLog \in {<<>>, <<EarlierLine(1, "x")>>, <<EarlierLine(2, "y")>>}
    /\ avReport = NoReport
    /\ avReads = {}
    /\ avRun = 0
    /\ avBatch = 100
    /\ avExit = None

SpecAlbumResume == AvResumeInit /\ [][AvNext]_vars

\* The matched pair's source album was not in the progress file when the
\* run started.
NotYetVerified(m) == m.s.id \notin avVerified

\* C39: the report's album_results holds one result for exactly each
\* matched album whose source id was not in the progress file when the run
\* started, in matching order, while matched_albums counts every matched
\* pair; so the two numbers are equal iff no matched album had been
\* verified by an earlier run.
ResumedReportHoldsNewResultsOnly ==
    avPc = "done" =>
        LET new == SelectSeq(avMatched, NotYetVerified)
        IN /\ avReport.matched_albums = Len(avMatched)
           /\ Len(avReport.album_results) = Len(new)
           /\ \A k \in 1..Len(new) :
                 /\ avReport.album_results[k].synology_album_id = new[k].s.id
                 /\ avReport.album_results[k].immich_album_id = new[k].i.id
           /\ Len(avReport.album_results) = avReport.matched_albums
                 <=> \A k \in 1..Len(avMatched) : NotYetVerified(avMatched[k])

\* A run over two matched albums, one verified by an earlier run: the
\* report counts two matched albums and holds one result.
ResumedReportHoldsNewResultsOnlyWitness ==
    /\ avPc = "done"
    /\ avRun = 1
    /\ avReport.matched_albums = 2
    /\ Len(avReport.album_results) = 1
    /\ Cardinality(avVerified) = 1

====
